---------------------------- MODULE Spec2Model ----------------------------
(***************************************************************************)
(* Zenith hub: the task screen (ProductivityScreen.tsx), its ordering and  *)
(* recurrence functions, and the durable store it writes to; the shopping  *)
(* list (SupermarketScreen.tsx), the transactions (FinancesScreen.tsx) and *)
(* the choice of the screen on show (App.tsx).                             *)
(*                                                                         *)
(* Strings the code inspects character by character (dates, ids) are       *)
(* sequences of one-character strings and of code units; "undefined" is    *)
(* the empty sequence for a date and the string "none" for an enum.        *)
(*                                                                         *)
(* Specifications:                                                         *)
(*   SpecDate     calculateNextDueDate over the dates of YearSpan years    *)
(*   SpecSort     sortTasks over the lists of up to MaxLen tasks           *)
(*   Spec         the screen from mount on, MaxOps operations, the store   *)
(*                completing its operations in any order                   *)
(*   SpecFifo     the same with a store that completes in issue order      *)
(*   SpecToggle   completing and reopening on a loaded screen, over every  *)
(*                frequency and kind of task                               *)
(*   SpecClock    completing recurring tasks at different times of day in  *)
(*                different time zones                                     *)
(*   SpecSubtask  breakdowns and subtask clicks on a loaded screen         *)
(*   SpecDrag     breakdowns and drags of subtasks, one task               *)
(*   SpecDrop     drags of subtasks while an earlier breakdown is awaited   *)
(*   SpecBreakdown  breakdowns answered inside and outside the response    *)
(*                schema, among subtask clicks, completions and deletions  *)
(*   SpecDelete   deletions among subtask clicks and breakdowns, the store *)
(*                completing in issue order                                *)
(*   SpecFocus    choosing the task in focus, with the focus timer         *)
(*   SpecMarket   the shopping list from mount on                          *)
(*   SpecFinance  the transactions and their form from mount on            *)
(*   SpecRecurrence  the same with the recurrence switch, one operation    *)
(*   SpecInput    what each of the three screens does with a submission    *)
(***************************************************************************)
EXTENDS Integers, Sequences, FiniteSets, TLC

VARIABLES
    \* ---- ProductivityScreen component state (useState / useRef)
    tasks,            \* useState<Task[]>
    loadingTaskId,    \* useState<string | null>
    focusedTaskId,    \* useState<string | null>
    openMenuId,       \* useState<string | null>
    isModalOpen,      \* useState(false)
    editingTask,      \* useState<Task | null>
    \* ---- the durable store and the asynchronous calls in flight
    store,            \* the tasks collection of the store, one record per id
    writes,           \* store operations issued and not yet completed, in issue order
    aiCalls,          \* generateContent calls awaiting their response
    loadState,        \* << snapshot >> while the initial getTasks() is pending, then << >>
    nextId,           \* how many ids the store has assigned
    now,              \* Date.now(), in milliseconds from the start of the session
    failures,         \* store operations that were rejected so far
    ops,              \* task-changing operations the user may still perform
    draggedSubtaskRef, \* << >> or << [taskId, subtask] >>: the subtask being dragged
    dragOverInfo,     \* << >> or << [subtaskId, position] >>: the drop indicator
    last,             \* the handler that ran in the last step, with what it was given
    isTimerActive,    \* useState(false): the focus timer is counting
    deleted,          \* the ids handleDeleteTask has been called with
    \* ---- SupermarketScreen component state, its store and its calls in flight
    items,            \* useState<ListItem[]>
    inputValue,       \* useState('')
    modalItem,        \* useState<ListItem | null>: << >> or << item >>
    quantity,         \* useState('1')
    unitPrice,        \* useState('')
    showClearConfirm, \* useState(false)
    itemStore,        \* the items collection of the store, one record per id
    itemWrites,       \* store operations on items issued and not yet completed
    itemsLoad,        \* << snapshot >> while the initial getItems() is pending, then << >>
    \* ---- FinancesScreen component state, its localStorage entry and its timers
    transactions,          \* useState<Transaction[]>
    storedTransactions,    \* what localStorage holds under STORAGE_KEY
    isFormVisible,         \* useState(false)
    editingTransactionId,  \* useState<string | null>(null)
    form,                  \* description, amount, date, type, category, isRecurring,
                           \* recurrenceFrequency: one useState each
    closeTimers,           \* setTimeout(closeForm, 1500) calls not yet run
    deleteTimers,          \* ids whose setTimeout(..., 300) of handleDelete has not run
    \* ---- App
    activeButton,     \* useState('dashboard'): the screen App renders
    \* ---- inputs and outputs of the pure functions (SpecDate, SpecSort)
    currentDateStr, frequency, nextDue,
    xs, sorted,
    pc                \* "in": the inputs are drawn; "out": the function was applied

prodVars == << tasks, loadingTaskId, focusedTaskId, openMenuId, isModalOpen,
               editingTask, store, writes, aiCalls, loadState, nextId, now,
               failures, ops, draggedSubtaskRef, dragOverInfo, last >>
dragVars == << draggedSubtaskRef, dragOverInfo >>
dateVars == << currentDateStr, frequency, nextDue >>
sortVars == << xs, sorted >>
marketVars == << items, inputValue, modalItem, quantity, unitPrice, showClearConfirm,
                 itemStore, itemWrites, itemsLoad >>
timerVars == << isTimerActive >>
historyVars == << deleted >>
financeVars == << transactions, storedTransactions, isFormVisible, editingTransactionId,
                 form, closeTimers, deleteTimers >>
appVars == << activeButton >>
vars == << prodVars, timerVars, historyVars, dateVars, sortVars, marketVars, financeVars, appVars, pc >>

NULL == << >>
None == "none"

(***************************************************************************)
(* Calendar dates.  A date string is "YYYY-MM-DD" as a sequence of         *)
(* characters; a Date object is the number of its local calendar day       *)
(* counted from 1970-01-01 (every Date the code makes is at local midday   *)
(* or at UTC midnight, see ParseMidday and DateGetTime).                   *)
(***************************************************************************)
DigitChars == << "0", "1", "2", "3", "4", "5", "6", "7", "8", "9" >>

DigitChar(n) == DigitChars[n + 1]

IsDigit(c) == \E i \in 1..10 : DigitChars[i] = c

DigitVal(c) == (CHOOSE i \in 1..10 : DigitChars[i] = c) - 1

IsLeap(y) == (y % 4 = 0 /\ y % 100 # 0) \/ y % 400 = 0

DaysInMonth(y, m) ==
    IF m = 2 THEN (IF IsLeap(y) THEN 29 ELSE 28)
    ELSE IF m \in {4, 6, 9, 11} THEN 30 ELSE 31

\* Days from 0000-01-01 to <y>-01-01 of the proleptic Gregorian calendar.
DaysBeforeYear(y) ==
    365 * y + ((y + 3) \div 4) - ((y + 99) \div 100) + ((y + 399) \div 400)

RECURSIVE DaysBeforeMonth(_, _)
DaysBeforeMonth(y, m) ==
    IF m = 1 THEN 0 ELSE DaysBeforeMonth(y, m - 1) + DaysInMonth(y, m - 1)

\* ECMAScript MakeDay(year, month, date): month is 0-based and may exceed 11,
\* date may exceed the length of the month; the result is a day number.
MakeDay(year, month, date) ==
    LET y == year + (month \div 12)
        m == (month % 12) + 1
    IN  DaysBeforeYear(y) - DaysBeforeYear(1970) + DaysBeforeMonth(y, m) + date - 1

\* ECMAScript YearFromTime / MonthFromTime / DateFromTime of a day number.
YearFromDay(n) ==
    CHOOSE y \in 1970..2100 :
        /\ MakeDay(y, 0, 1) <= n
        /\ n < MakeDay(y + 1, 0, 1)

MonthFromDay(n) ==
    LET y == YearFromDay(n)
    IN  CHOOSE m \in 0..11 :
            /\ MakeDay(y, m, 1) <= n
            /\ n < MakeDay(y, m + 1, 1)

DateFromDay(n) == n - MakeDay(YearFromDay(n), MonthFromDay(n), 1) + 1

\* String(n) for 0 <= n <= 9999.
RECURSIVE NumToStr(_)
NumToStr(n) ==
    IF n < 10 THEN << DigitChar(n) >>
    ELSE NumToStr(n \div 10) \o << DigitChar(n % 10) >>

\* s.padStart(2, '0')
PadStart2(s) == IF Len(s) < 2 THEN << "0" >> \o s ELSE s

RECURSIVE StrToNum(_)
StrToNum(s) ==
    IF Len(s) = 0 THEN 0
    ELSE 10 * StrToNum(SubSeq(s, 1, Len(s) - 1)) + DigitVal(s[Len(s)])

\* The fields of a "YYYY-MM-DD" string.
YearOf(s) == StrToNum(SubSeq(s, 1, 4))
MonthOf(s) == StrToNum(SubSeq(s, 6, 7))
DayOf(s) == StrToNum(SubSeq(s, 9, 10))

\* new Date(str + 'T12:00:00'): local midday of that calendar day.
ParseMidday(s) == MakeDay(YearOf(s), MonthOf(s) - 1, DayOf(s))

\* `${year}-${month}-${day}` of the local fields, month and day padded to 2.
FormatDate(n) ==
    NumToStr(YearFromDay(n)) \o << "-" >>
        \o PadStart2(NumToStr(MonthFromDay(n) + 1)) \o << "-" >>
        \o PadStart2(NumToStr(DateFromDay(n)))

Frequencies == { "daily", "weekly", "monthly", "yearly" }

\* A mutant of AdvanceDate: the month step clamps to the last day of the target
\* month instead of running over.
AdvanceDateClamped(date, freq) ==
    LET y == YearFromDay(date)
        m == MonthFromDay(date)
        d == DateFromDay(date)
        first == MakeDay(y, m + 1, 1)
        len == MakeDay(y, m + 2, 1) - first
    IN  CASE freq = "daily"   -> MakeDay(y, m, d + 1)
          [] freq = "weekly"  -> MakeDay(y, m, d + 7)
          [] freq = "monthly" -> IF d > len THEN first + len - 1 ELSE MakeDay(y, m + 1, d)
          [] freq = "yearly"  -> MakeDay(y + 1, m, d)

\* date.setDate / setMonth / setFullYear on the local fields of `date`.
AdvanceDate(date, freq) ==
    LET y == YearFromDay(date)
        m == MonthFromDay(date)
        d == DateFromDay(date)
    IN  CASE freq = "daily"   -> MakeDay(y, m, d + 1)
          [] freq = "weekly"  -> MakeDay(y, m, d + 7)
          [] freq = "monthly" -> MakeDay(y, m + 1, d)
          [] freq = "yearly"  -> MakeDay(y + 1, m, d)

\* Whether s reads YYYY-MM-DD.
IsDateString(s) ==
    /\ Len(s) = 10
    /\ \A i \in { 1, 2, 3, 4, 6, 7, 9, 10 } : IsDigit(s[i])
    /\ s[5] = "-"
    /\ s[8] = "-"

\* What the template prints for an Invalid Date: every field is NaN.
InvalidDateString == << "N", "a", "N", "-", "N", "a", "N", "-", "N", "a", "N" >>

calculateNextDueDate(dateStr, freq) ==
    IF IsDateString(dateStr)
    THEN FormatDate(AdvanceDate(ParseMidday(dateStr), freq))
    ELSE InvalidDateString

(***************************************************************************)
(* Tasks and their order (sortTasks).                                      *)
(***************************************************************************)
NoDate == << >>

Importances == { "low", "medium", "high" }

\* A mutant of importanceOrder: high and low exchanged.
importanceOrderSwapped(imp) ==
    CASE imp = "high" -> 3
      [] imp = "medium" -> 2
      [] imp = "low" -> 1
      [] OTHER -> 4

\* const importanceOrder = { high: 1, medium: 2, low: 3 }; undefined ranks 4.
importanceOrder(imp) ==
    CASE imp = "high" -> 1
      [] imp = "medium" -> 2
      [] imp = "low" -> 3
      [] OTHER -> 4

\* a < b on strings: by the first code unit that differs, a proper prefix first.
RECURSIVE StrLess(_, _)
StrLess(a, b) ==
    IF Len(b) = 0 THEN FALSE
    ELSE IF Len(a) = 0 THEN TRUE
    ELSE IF a[1] # b[1] THEN DigitVal(a[1]) < DigitVal(b[1])
    ELSE StrLess(Tail(a), Tail(b))

\* new Date("YYYY-MM-DD").getTime(): UTC midnight of that day, counted here in
\* minutes (the milliseconds of a date of this century exceed 32 bits).
DateGetTime(s) == MakeDay(YearOf(s), MonthOf(s) - 1, DayOf(s)) * 1440

\* The comparator of sortTasks: negative when a goes first, positive when b does.
CompareTasks(a, b) ==
    IF a.completed # b.completed THEN (IF a.completed THEN 1 ELSE -1)
    ELSE IF ~a.completed /\ importanceOrder(a.importance) # importanceOrder(b.importance)
        THEN importanceOrder(a.importance) - importanceOrder(b.importance)
    ELSE IF ~a.completed /\ a.dueDate # NoDate /\ b.dueDate = NoDate THEN -1
    ELSE IF ~a.completed /\ a.dueDate = NoDate /\ b.dueDate # NoDate THEN 1
    ELSE IF ~a.completed /\ a.dueDate # NoDate /\ b.dueDate # NoDate
        THEN DateGetTime(a.dueDate) - DateGetTime(b.dueDate)
    ELSE IF StrLess(a.id, b.id) THEN 1
    ELSE IF StrLess(b.id, a.id) THEN -1
    ELSE 0

\* A mutant of InsertTask: an unstable sort, which puts an element before the
\* elements it compares equal to.
RECURSIVE InsertTaskUnstable(_, _)
InsertTaskUnstable(s, x) ==
    IF Len(s) = 0 THEN << x >>
    ELSE IF CompareTasks(s[Len(s)], x) >= 0
        THEN InsertTaskUnstable(SubSeq(s, 1, Len(s) - 1), x) \o << s[Len(s)] >>
    ELSE s \o << x >>

\* Array.prototype.sort is stable: an element goes behind every element of the
\* sorted prefix that does not compare greater than it.
RECURSIVE InsertTask(_, _)
InsertTask(s, x) ==
    IF Len(s) = 0 THEN << x >>
    ELSE IF CompareTasks(s[Len(s)], x) > 0
        THEN InsertTask(SubSeq(s, 1, Len(s) - 1), x) \o << s[Len(s)] >>
    ELSE s \o << x >>

RECURSIVE SortPrefix(_, _)
SortPrefix(ts, n) ==
    IF n = 0 THEN << >> ELSE InsertTask(SortPrefix(ts, n - 1), ts[n])

sortTasks(ts) == SortPrefix(ts, Len(ts))

(***************************************************************************)
(* Inputs of the bounded checks.                                           *)
(***************************************************************************)
\* "YYYY-MM-DD" written digit by digit.
DateString(y, m, d) ==
    << DigitChar(y \div 1000), DigitChar((y \div 100) % 10), DigitChar((y \div 10) % 10),
       DigitChar(y % 10), "-", DigitChar(m \div 10), DigitChar(m % 10), "-",
       DigitChar(d \div 10), DigitChar(d % 10) >>

\* The calendar days of the years 2024 .. 2024 + YearSpan - 1 (2024 is a leap year).
YearSpan == 2

Years == 2024..(2024 + YearSpan - 1)

ValidYMD == { t \in Years \X (1..12) \X (1..31) : t[3] <= DaysInMonth(t[1], t[2]) }

ValidDates == { DateString(t[1], t[2], t[3]) : t \in ValidYMD }

\* The id the store assigns to the n-th task it is given: the decimal string of
\* a counter that passes from one digit to two ("9", "10", "11", ...).
IdOf(n) == NumToStr(n + 8)

\* Task lists of at most MaxLen tasks with pairwise distinct ids.
MaxLen == 3

SortDates == { NoDate, DateString(2024, 1, 31), DateString(2024, 2, 1) }

SortTasksUniverse ==
    [ id : { IdOf(n) : n \in 1..MaxLen }, text : { << "t" >> }, completed : BOOLEAN,
      dueDate : SortDates, importance : Importances \cup { None },
      recurring : { None }, subtasks : { << >> } ]

DistinctIds(ts) == \A i, j \in 1..Len(ts) : i # j => ts[i].id # ts[j].id

TaskLists ==
    UNION { { ts \in [1..n -> SortTasksUniverse] : DistinctIds(ts) } : n \in 0..MaxLen }

(***************************************************************************)
(* The task screen: collections, the store, the calls in flight.           *)
(***************************************************************************)
NoOp == [ op |-> "none" ]

\* prev.map(t => t.id === id ? updated : t)
ReplaceTask(ts, id, updated) ==
    [ i \in 1..Len(ts) |-> IF ts[i].id = id THEN updated ELSE ts[i] ]

RECURSIVE FilterOutTask(_, _)
\* prev.filter(t => t.id !== id)
FilterOutTask(ts, id) ==
    IF Len(ts) = 0 THEN << >>
    ELSE IF ts[1].id = id THEN FilterOutTask(Tail(ts), id)
    ELSE << ts[1] >> \o FilterOutTask(Tail(ts), id)

TaskIds(ts) == { ts[i].id : i \in 1..Len(ts) }

\* tasks.find(t => t.id === id), for an id that is present
FindTask(ts, id) == ts[CHOOSE i \in 1..Len(ts) : ts[i].id = id /\ \A k \in 1..(i - 1) : ts[k].id # id]

RemoveAt(q, i) == SubSeq(q, 1, i - 1) \o SubSeq(q, i + 1, Len(q))

\* store.put(task) and store.delete(id) on a collection keyed by id
StorePut(st, t) == { u \in st : u.id # t.id } \cup { t }

StoreDelete(st, id) == { u \in st : u.id # id }

\* getTasks(): every record of the collection, in key order
StoreList(st) ==
    CHOOSE q \in [1..Cardinality(st) -> st] :
        \A i, j \in 1..Cardinality(st) : i < j => StrLess(q[i].id, q[j].id)

\* str.trim() === '' for the texts of the form
RECURSIVE IsBlank(_)
IsBlank(text) == Len(text) = 0 \/ (text[1] = " " /\ IsBlank(Tail(text)))

\* task.subtasks?.map(st => ({ ...st, completed: false }))
ResetSubtasks(sts) == [ i \in 1..Len(sts) |-> [ sts[i] EXCEPT !.completed = FALSE ] ]

\* subtasks.map(st => st.id === subtaskId ? { ...st, completed: !st.completed } : st)
FlipSubtask(sts, subtaskId) ==
    [ i \in 1..Len(sts) |->
        IF sts[i].id = subtaskId THEN [ sts[i] EXCEPT !.completed = ~@ ] ELSE sts[i] ]

\* subtaskTexts.map((text, index) => ({ id: Date.now() + index, text, completed: false }))
\* times[i] is what Date.now() returns for the i-th text.
NewSubtasks(texts, times) ==
    [ i \in 1..Len(texts) |->
        [ id |-> times[i] + (i - 1), text |-> texts[i], completed |-> FALSE ] ]

(***************************************************************************)
(* Bounds and inputs of Spec.                                              *)
(***************************************************************************)
MaxOps == 2          \* user operations that change a task, per run of Spec
MaxFailures == 1     \* store operations that are rejected, per run
MaxClockStep == 1    \* milliseconds the clock may advance between two readings

\* What the form may hold when Salvar is pressed.  recurring is None when the
\* switch is off and the chosen frequency when it is on.
Forms ==
    { [ text |-> << " " >>, dueDate |-> NoDate, importance |-> None, recurring |-> None ],
      [ text |-> << "c" >>, dueDate |-> NoDate, importance |-> None, recurring |-> None ],
      [ text |-> << "c" >>, dueDate |-> NoDate, importance |-> None, recurring |-> "daily" ],
      [ text |-> << "c" >>, dueDate |-> DateString(2024, 1, 31), importance |-> "high",
        recurring |-> "monthly" ] }
\* new Date().toISOString().split('T')[0]: the UTC date of the moment of the call
UtcTodays == { DateString(2024, 2, 29) }
\* A value of a parsed list that is not a string (null).
JsonNull == << "null" >>

\* What generateContent may deliver: a rejection, or a text.  `shape` tells
\* what JSON.parse makes of the text and `texts` holds the elements of
\* result.subtasks when that is a list.  These three are the rejection and
\* the answers the response schema allows.
AiResponses ==
    { [ ok |-> FALSE, shape |-> "none", texts |-> << >> ],
      [ ok |-> TRUE, shape |-> "list", texts |-> << >> ],
      [ ok |-> TRUE, shape |-> "list", texts |-> << << "p" >>, << "q" >> >> ] }

\* Answers outside the schema: a text that is not JSON, the value null, an
\* object without `subtasks`, `subtasks` a non-empty string, a number, a
\* list holding a null.
MalformedAiResponses ==
    { [ ok |-> TRUE, shape |-> "invalid", texts |-> << >> ],
      [ ok |-> TRUE, shape |-> "null", texts |-> << >> ],
      [ ok |-> TRUE, shape |-> "missing", texts |-> << >> ],
      [ ok |-> TRUE, shape |-> "string", texts |-> << >> ],
      [ ok |-> TRUE, shape |-> "number", texts |-> << >> ],
      [ ok |-> TRUE, shape |-> "list", texts |-> << << "p" >>, JsonNull >> ] }

\* The try block of handleBreakdownTask from the await to subtaskTexts.map:
\* an exception (the rejection, JSON.parse on a text that is not JSON,
\* `.subtasks` of null, `.map` of a string, which has a length and no map),
\* or the elements of `result.subtasks || []` (none for a number, whose
\* length is undefined).
Threw == [ threw |-> TRUE, texts |-> << >> ]

SubtaskTexts(resp) ==
    IF ~resp.ok \/ resp.shape \in { "invalid", "null", "string" } THEN Threw
    ELSE IF resp.shape \in { "missing", "number" } THEN [ threw |-> FALSE, texts |-> << >> ]
    ELSE [ threw |-> FALSE, texts |-> resp.texts ]

\* Whether handleBreakdownTask builds new subtasks from the response.
BreakdownApplies(resp) == ~SubtaskTexts(resp).threw /\ Len(SubtaskTexts(resp).texts) > 0

StoredA ==
    [ id |-> IdOf(1), text |-> << "a" >>, completed |-> FALSE,
      dueDate |-> DateString(2024, 1, 31), importance |-> "high", recurring |-> "monthly",
      subtasks |-> << [ id |-> 1, text |-> << "x" >>, completed |-> TRUE ],
                      [ id |-> 2, text |-> << "y" >>, completed |-> FALSE ] >> ]

StoredB ==
    [ id |-> IdOf(2), text |-> << "b" >>, completed |-> TRUE,
      dueDate |-> NoDate, importance |-> None, recurring |-> None, subtasks |-> << >> ]

\* What earlier sessions may have left in the store.
InitialStores == { {}, { StoredA, StoredB } }

\* The task screen is not on screen.
IdleTasks ==
    /\ tasks = << >>
    /\ loadingTaskId = NULL
    /\ focusedTaskId = NULL
    /\ openMenuId = NULL
    /\ isModalOpen = FALSE
    /\ editingTask = << >>
    /\ store = {}
    /\ writes = << >>
    /\ aiCalls = << >>
    /\ loadState = << >>
    /\ nextId = 0
    /\ draggedSubtaskRef = << >>
    /\ dragOverInfo = << >>
    /\ isTimerActive = FALSE
    /\ deleted = {}

\* App shows the screen `button` with `budget` operations to come.
Showing(button, budget) ==
    /\ activeButton = button
    /\ now = 10
    /\ failures = 0
    /\ ops = budget
    /\ last = NoOp

IdleProd == IdleTasks /\ Showing("dashboard", 0)

\* The pure functions have nothing to work on.
IdleFunctions ==
    /\ currentDateStr = NoDate
    /\ frequency = None
    /\ nextDue = NoDate
    /\ xs = << >>
    /\ sorted = << >>
    /\ pc = "in"

\* The shopping list is not on screen.
IdleMarket ==
    /\ items = << >>
    /\ inputValue = << >>
    /\ modalItem = << >>
    /\ quantity = << "1" >>
    /\ unitPrice = << >>
    /\ showClearConfirm = FALSE
    /\ itemStore = {}
    /\ itemWrites = << >>
    /\ itemsLoad = << >>

\* The finances are not on screen.
IdleFinance ==
    /\ transactions = << >>
    /\ storedTransactions = << >>
    /\ isFormVisible = FALSE
    /\ editingTransactionId = NULL
    /\ form = [ description |-> << >>, amount |-> << >>, date |-> NoDate, type |-> "expense",
                category |-> "shopping", isRecurring |-> FALSE,
                recurrenceFrequency |-> "monthly" ]
    /\ closeTimers = 0
    /\ deleteTimers = {}

\* Only the task screen is in use.
IdlePure == IdleFunctions /\ IdleMarket /\ IdleFinance

\* The component is mounted: nothing on screen, getTasks() in flight.
InitProd ==
    /\ store \in InitialStores
    /\ tasks = << >>
    /\ loadingTaskId = NULL
    /\ focusedTaskId = NULL
    /\ openMenuId = NULL
    /\ isModalOpen = FALSE
    /\ editingTask = << >>
    /\ writes = << >>
    /\ aiCalls = << >>
    /\ loadState = << StoreList(store) >>
    /\ nextId = Cardinality(store)
    /\ now = 10
    /\ failures = 0
    /\ ops = MaxOps
    /\ draggedSubtaskRef = << >>
    /\ dragOverInfo = << >>
    /\ isTimerActive = FALSE
    /\ deleted = {}
    /\ last = NoOp
    /\ activeButton = "productivity"

\* What the task screen's handlers never touch.
pureVars == << timerVars, historyVars, dateVars, sortVars, marketVars, financeVars, appVars, pc >>

\* loadData: getTasks() resolves and the list is shown sorted.
LoadComplete ==
    /\ Len(loadState) = 1
    /\ tasks' = sortTasks(loadState[1])
    /\ loadState' = << >>
    /\ last' = [ op |-> "load", pre |-> tasks ]
    /\ UNCHANGED << loadingTaskId, focusedTaskId, openMenuId, isModalOpen, editingTask,
                    store, writes, aiCalls, nextId, now, failures, ops, dragVars, pureVars >>

\* The three-dots button of a task (replaced by a spinner while it is loading).
HandleMenuToggle(id) ==
    /\ ~isModalOpen
    /\ draggedSubtaskRef = << >>
    /\ id \in TaskIds(tasks)
    /\ loadingTaskId # id
    /\ openMenuId' = IF openMenuId = id THEN NULL ELSE id
    /\ last' = NoOp
    /\ UNCHANGED << tasks, loadingTaskId, focusedTaskId, isModalOpen, editingTask,
                    store, writes, aiCalls, loadState, nextId, now, failures,
                    ops, dragVars, pureVars >>

\* mousedown outside the open menu.  It is an action of its own: a handler
\* reached from the keyboard runs without it.
HandleClickOutside ==
    /\ openMenuId # NULL
    /\ draggedSubtaskRef = << >>
    /\ openMenuId' = NULL
    /\ last' = NoOp
    /\ UNCHANGED << tasks, loadingTaskId, focusedTaskId, isModalOpen, editingTask,
                    store, writes, aiCalls, loadState, nextId, now, failures,
                    ops, dragVars, pureVars >>

OpenAddModal ==
    /\ ~isModalOpen
    /\ draggedSubtaskRef = << >>
    /\ editingTask' = << >>
    /\ isModalOpen' = TRUE
    /\ last' = NoOp
    /\ UNCHANGED << tasks, loadingTaskId, focusedTaskId, openMenuId,
                    store, writes, aiCalls, loadState, nextId, now, failures,
                    ops, dragVars, pureVars >>

OpenEditModal(task) ==
    /\ ~isModalOpen
    /\ draggedSubtaskRef = << >>
    /\ openMenuId = task.id
    /\ editingTask' = << task >>
    /\ openMenuId' = NULL
    /\ isModalOpen' = TRUE
    /\ last' = NoOp
    /\ UNCHANGED << tasks, loadingTaskId, focusedTaskId,
                    store, writes, aiCalls, loadState, nextId, now, failures,
                    ops, dragVars, pureVars >>

\* The Cancelar button of the form.
CloseModal ==
    /\ isModalOpen
    /\ isModalOpen' = FALSE
    /\ last' = NoOp
    /\ UNCHANGED << tasks, loadingTaskId, focusedTaskId, openMenuId, editingTask,
                    store, writes, aiCalls, loadState, nextId, now, failures,
                    ops, dragVars, pureVars >>

\* The task handleSaveTask builds from the task being edited and the form.
EditedTask(task, formText, formDueDate, formImportance, formRecurring) ==
    [ task EXCEPT !.text = formText,
                  !.dueDate = formDueDate,
                  !.importance = formImportance,
                  !.recurring = formRecurring,
                  !.completed = IF formRecurring # None THEN FALSE ELSE @ ]

\* The form's Salvar button.  The store call is awaited before the list changes.
HandleSaveTask(formText, formDueDate, formImportance, formRecurring) ==
    /\ isModalOpen
    /\ IF IsBlank(formText)
       THEN /\ last' = [ op |-> "saveRejected", text |-> formText, pre |-> tasks,
                         preWrites |-> writes, preStore |-> store ]
            /\ UNCHANGED << writes, nextId, ops >>
       ELSE /\ ops > 0
            /\ ops' = ops - 1
            /\ last' = [ op |-> "save", text |-> formText ]
            /\ IF editingTask # << >>
               THEN LET updatedTask ==
                            EditedTask(editingTask[1], formText, formDueDate,
                                       formImportance, formRecurring)
                    IN  /\ writes' = Append(writes,
                                [ op |-> "put", id |-> updatedTask.id,
                                  task |-> updatedTask, cont |-> "saveEdit" ])
                        /\ UNCHANGED nextId
               ELSE LET newTask ==
                            [ id |-> IdOf(nextId + 1), text |-> formText,
                              completed |-> FALSE, dueDate |-> formDueDate,
                              importance |-> formImportance,
                              recurring |-> formRecurring, subtasks |-> << >> ]
                    IN  /\ writes' = Append(writes,
                                [ op |-> "add", id |-> newTask.id,
                                  task |-> newTask, cont |-> "saveCreate" ])
                        /\ nextId' = nextId + 1
    /\ UNCHANGED << tasks, loadingTaskId, focusedTaskId, openMenuId, isModalOpen,
                    editingTask, store, aiCalls, loadState, now, failures,
                    dragVars, pureVars >>

\* A mutant of ToggledTask: a recurring task is marked completed like any other.
ToggledTaskFlipsRecurring(task, today) ==
    IF task.recurring # None /\ ~task.completed
    THEN [ task EXCEPT
             !.completed = TRUE,
             !.dueDate = calculateNextDueDate(IF @ # NoDate THEN @ ELSE today, task.recurring),
             !.subtasks = ResetSubtasks(@) ]
    ELSE [ task EXCEPT !.completed = ~@ ]

\* A mutant of ToggledTask: the subtasks of a recurring task keep their flags.
ToggledTaskKeepsSubtasks(task, today) ==
    IF task.recurring # None /\ ~task.completed
    THEN [ task EXCEPT
             !.dueDate = calculateNextDueDate(IF @ # NoDate THEN @ ELSE today, task.recurring) ]
    ELSE [ task EXCEPT !.completed = ~@ ]

\* The task handleToggleTask puts in place of `task`; `today` is the UTC date
\* the clock shows.
ToggledTask(task, today) ==
    IF task.recurring # None /\ ~task.completed
    THEN [ task EXCEPT
             !.dueDate = calculateNextDueDate(IF @ # NoDate THEN @ ELSE today, task.recurring),
             !.subtasks = ResetSubtasks(@) ]
    ELSE [ task EXCEPT !.completed = ~@ ]

\* A reading of the wall clock: `time` is the instant in minutes since
\* 1970-01-01T00:00Z and `offset` is Date.prototype.getTimezoneOffset(), the
\* minutes UTC is ahead of local time.
\* new Date().toISOString().split('T')[0]: the date of the UTC fields.
ToISODate(clock) == FormatDate(clock.time \div 1440)

\* The calendar date of the local fields of new Date().
LocalDate(clock) == FormatDate((clock.time - clock.offset) \div 1440)

\* Midday UTC of the day `today`, read in a place that keeps UTC.
MiddayUtc(today) == [ time |-> ParseMidday(today) * 1440 + 720, offset |-> 0 ]

\* Concluir / Reabrir in the menu of `task`, chosen when the clock reads `clock`.
HandleToggleTaskAt(task, clock) ==
    /\ ~isModalOpen
    /\ draggedSubtaskRef = << >>
    /\ openMenuId = task.id
    /\ ops > 0
    /\ ops' = ops - 1
    /\ LET updatedTask == ToggledTask(task, ToISODate(clock))
       IN  /\ tasks' = sortTasks(ReplaceTask(tasks, task.id, updatedTask))
           /\ writes' = Append(writes, [ op |-> "put", id |-> task.id,
                                         task |-> updatedTask, cont |-> "toggleTask" ])
    /\ last' = [ op |-> "toggleTask", task |-> task, today |-> ToISODate(clock),
                 clock |-> clock ]
    /\ UNCHANGED << loadingTaskId, focusedTaskId, openMenuId, isModalOpen, editingTask,
                    store, aiCalls, loadState, nextId, now, failures, dragVars, pureVars >>

\* The same at midday UTC of the day `today`.
HandleToggleTask(task, today) == HandleToggleTaskAt(task, MiddayUtc(today))

\* The task handleToggleSubtask puts in place of the task it found.
SubtaskToggledTask(task, subtaskId) ==
    [ task EXCEPT !.subtasks = FlipSubtask(@, subtaskId) ]

\* A click on the k-th subtask of the task `taskId`.
HandleToggleSubtask(taskId, k) ==
    /\ ~isModalOpen
    /\ draggedSubtaskRef = << >>
    /\ taskId \in TaskIds(tasks)
    /\ k \in 1..Len(FindTask(tasks, taskId).subtasks)
    /\ ops > 0
    /\ ops' = ops - 1
    /\ LET taskToUpdate == FindTask(tasks, taskId)
           updatedTask == SubtaskToggledTask(taskToUpdate, taskToUpdate.subtasks[k].id)
       IN  /\ tasks' = ReplaceTask(tasks, taskId, updatedTask)
           /\ writes' = Append(writes, [ op |-> "put", id |-> taskId,
                                         task |-> updatedTask, cont |-> "toggleSubtask" ])
    /\ last' = [ op |-> "toggleSubtask", taskId |-> taskId, k |-> k, pre |-> tasks ]
    /\ UNCHANGED << loadingTaskId, focusedTaskId, openMenuId, isModalOpen, editingTask,
                    store, aiCalls, loadState, nextId, now, failures, dragVars, pureVars >>

\* handleDeleteTask without its first statement
FocusKeptOnDelete(focused, id) == focused

\* if (focusedTaskId === id) setFocusedTaskId(null)
FocusAfterDelete(focused, id) == IF focused = id THEN NULL ELSE focused

\* Deletar in the menu of the task `id`.
HandleDeleteTask(id) ==
    /\ ~isModalOpen
    /\ draggedSubtaskRef = << >>
    /\ openMenuId = id
    /\ ops > 0
    /\ ops' = ops - 1
    /\ focusedTaskId' = FocusAfterDelete(focusedTaskId, id)
    /\ tasks' = FilterOutTask(tasks, id)
    /\ writes' = Append(writes, [ op |-> "delete", id |-> id,
                                  task |-> << >>, cont |-> "delete" ])
    /\ last' = [ op |-> "delete", id |-> id, focused |-> focusedTaskId ]
    /\ deleted' = deleted \cup { id }
    /\ UNCHANGED << loadingTaskId, openMenuId, isModalOpen, editingTask,
                    store, aiCalls, loadState, nextId, now, failures, dragVars,
                    timerVars, dateVars, sortVars, marketVars, financeVars, appVars,
                    pc >>

\* A click on the row of `task`: handleSelectFocusTask.
HandleSelectFocusTask(task) ==
    /\ ~isModalOpen
    /\ draggedSubtaskRef = << >>
    /\ IF task.completed \/ isTimerActive
       THEN focusedTaskId' = focusedTaskId
       ELSE focusedTaskId' = IF focusedTaskId = task.id THEN NULL ELSE task.id
    /\ last' = [ op |-> "focus", id |-> task.id, focused |-> focusedTaskId ]
    /\ UNCHANGED << tasks, loadingTaskId, openMenuId, isModalOpen, editingTask, store,
                    writes, aiCalls, loadState, nextId, now, failures, ops, dragVars,
                    pureVars >>

\* handleStartTimer and toggleTimer start the timer or pause it; resetTimer
\* and the end of the countdown stop it.
SetIsTimerActive ==
    /\ ~isModalOpen
    /\ draggedSubtaskRef = << >>
    /\ isTimerActive' = ~isTimerActive
    /\ last' = NoOp
    /\ UNCHANGED << tasks, loadingTaskId, focusedTaskId, openMenuId, isModalOpen,
                    editingTask, store, writes, aiCalls, loadState, nextId, now, failures,
                    ops, dragVars, historyVars, dateVars, sortVars, marketVars,
                    financeVars, appVars, pc >>

\* Dividir c/ IA in the menu of `task`: up to the await of generateContent.
HandleBreakdownTask(task) ==
    /\ ~isModalOpen
    /\ draggedSubtaskRef = << >>
    /\ openMenuId = task.id
    /\ ops > 0
    /\ ops' = ops - 1
    /\ openMenuId' = NULL
    /\ loadingTaskId' = task.id
    /\ aiCalls' = Append(aiCalls, task)
    /\ last' = [ op |-> "breakdown" ]
    /\ UNCHANGED << tasks, focusedTaskId, isModalOpen, editingTask,
                    store, writes, loadState, nextId, now, failures, dragVars, pureVars >>

\* The sequences of n readings the clock may give from `from` on; none when
\* n = 0 leaves the empty sequence.
RECURSIVE ClockReadings(_, _)
ClockReadings(from, n) ==
    IF n = 0 THEN { << >> }
    ELSE UNION { { << t >> \o rest : rest \in ClockReadings(t, n - 1) } :
                 t \in from..(from + MaxClockStep) }

\* handleBreakdownTask from the response of generateContent on; `times` are
\* the readings of Date.now() while the new subtasks are built.
BreakdownResponse(i, resp, times) ==
    /\ i \in 1..Len(aiCalls)
    /\ aiCalls' = RemoveAt(aiCalls, i)
    /\ last' = [ op |-> "breakdownResponse", task |-> aiCalls[i], resp |-> resp,
                 pre |-> tasks, preWrites |-> writes ]
    /\ IF BreakdownApplies(resp)
       THEN LET task == aiCalls[i]
                updatedTask ==
                    [ task EXCEPT
                        !.subtasks = @ \o NewSubtasks(SubtaskTexts(resp).texts, times) ]
            IN  /\ tasks' = sortTasks(ReplaceTask(tasks, task.id, updatedTask))
                /\ writes' = Append(writes, [ op |-> "put", id |-> task.id,
                                              task |-> updatedTask, cont |-> "breakdown" ])
                /\ now' = times[Len(times)]
                /\ UNCHANGED loadingTaskId
       ELSE /\ loadingTaskId' = NULL
            /\ UNCHANGED << tasks, writes, now >>
    /\ UNCHANGED << focusedTaskId, openMenuId, isModalOpen, editingTask,
                    store, loadState, nextId, failures, ops, dragVars, pureVars >>

\* Array.prototype.findIndex, counting from 0; -1 when nothing matches.
FindIndex(sts, id) ==
    IF \E i \in 1..Len(sts) : sts[i].id = id
    THEN (CHOOSE i \in 1..Len(sts) : sts[i].id = id /\ \A k \in 1..(i - 1) : sts[k].id # id) - 1
    ELSE -1

\* Where Array.prototype.splice starts, for a start index counted from 0.
SpliceStart(len, start) ==
    IF start < 0
    THEN (IF len + start < 0 THEN 0 ELSE len + start)
    ELSE (IF start > len THEN len ELSE start)

\* seq.splice(start, 1)
SpliceRemove(seq, start) == RemoveAt(seq, SpliceStart(Len(seq), start) + 1)

\* seq.splice(start, 0, item)
SpliceInsert(seq, start, item) ==
    LET p == SpliceStart(Len(seq), start)
    IN  SubSeq(seq, 1, p) \o << item >> \o SubSeq(seq, p + 1, Len(seq))

\* A drop that takes the dragged subtask out and never puts it back: what
\* handleSubtaskDrop would build without its second splice.
DroppedSubtasksNotReinserted(sts, sourceId, targetId, position) ==
    SpliceRemove(sts, FindIndex(sts, sourceId))

\* The subtask list handleSubtaskDrop builds: the dragged subtask is taken out
\* and put back next to the target.
DroppedSubtasks(sts, sourceId, targetId, position) ==
    LET sourceIndex == FindIndex(sts, sourceId)
        targetIndex == FindIndex(sts, targetId)
        movedItem == sts[SpliceStart(Len(sts), sourceIndex) + 1]
        rest == SpliceRemove(sts, sourceIndex)
        adjustedTargetIndex ==
            IF targetIndex > sourceIndex THEN targetIndex - 1 ELSE targetIndex
    IN  IF position = "top"
        THEN SpliceInsert(rest, adjustedTargetIndex, movedItem)
        ELSE SpliceInsert(rest, adjustedTargetIndex + 1, movedItem)

\* A drag of the k-th subtask of the task `taskId` begins.  The mousedown that
\* starts it closes an open menu.
HandleSubtaskDragStart(taskId, k) ==
    /\ ~isModalOpen
    /\ draggedSubtaskRef = << >>
    /\ ops > 0
    /\ taskId \in TaskIds(tasks)
    /\ ~FindTask(tasks, taskId).completed
    /\ k \in 1..Len(FindTask(tasks, taskId).subtasks)
    /\ draggedSubtaskRef' =
          << [ taskId |-> taskId, subtask |-> FindTask(tasks, taskId).subtasks[k] ] >>
    /\ openMenuId' = NULL
    /\ last' = NoOp
    /\ UNCHANGED << tasks, loadingTaskId, focusedTaskId, isModalOpen, editingTask,
                    store, writes, aiCalls, loadState, nextId, now, failures,
                    ops, dragOverInfo, pureVars >>

\* The pointer is over the upper or lower half of the subtask `subtaskId`.
HandleSubtaskDragOver(subtaskId, position) ==
    /\ draggedSubtaskRef # << >>
    /\ dragOverInfo' =
          IF draggedSubtaskRef[1].subtask.id = subtaskId
          THEN dragOverInfo
          ELSE << [ subtaskId |-> subtaskId, position |-> position ] >>
    /\ last' = NoOp
    /\ UNCHANGED << tasks, loadingTaskId, focusedTaskId, openMenuId, isModalOpen,
                    editingTask, store, writes, aiCalls, loadState, nextId, now,
                    failures, ops, draggedSubtaskRef, pureVars >>

\* The pointer leaves a subtask list.
HandleSubtaskDragLeave ==
    /\ draggedSubtaskRef # << >>
    /\ dragOverInfo # << >>
    /\ dragOverInfo' = << >>
    /\ last' = NoOp
    /\ UNCHANGED << tasks, loadingTaskId, focusedTaskId, openMenuId, isModalOpen,
                    editingTask, store, writes, aiCalls, loadState, nextId, now,
                    failures, ops, draggedSubtaskRef, pureVars >>

\* A mutant of DropRejected: only a drop of a subtask on itself is rejected.
DropRejectedSelfOnly(sourceTaskId, sourceId, targetTaskId, targetId) ==
    sourceId = targetId

\* if (sourceTaskId !== targetTaskId || sourceSubtask.id === targetSubtask.id) return;
DropRejected(sourceTaskId, sourceId, targetTaskId, targetId) ==
    sourceTaskId # targetTaskId \/ sourceId = targetId

\* The dragged subtask is dropped on the k-th subtask of the task `targetTaskId`.
HandleSubtaskDrop(targetTaskId, k) ==
    /\ draggedSubtaskRef # << >>
    /\ targetTaskId \in TaskIds(tasks)
    /\ k \in 1..Len(FindTask(tasks, targetTaskId).subtasks)
    /\ LET taskToUpdate == FindTask(tasks, targetTaskId)
           targetSubtask == taskToUpdate.subtasks[k]
           sourceTaskId == draggedSubtaskRef[1].taskId
           sourceSubtask == draggedSubtaskRef[1].subtask
           position == IF dragOverInfo # << >> THEN dragOverInfo[1].position ELSE "none"
           updatedTask ==
               [ taskToUpdate EXCEPT !.subtasks =
                   DroppedSubtasks(@, sourceSubtask.id, targetSubtask.id, position) ]
       IN  IF DropRejected(sourceTaskId, sourceSubtask.id, targetTaskId, targetSubtask.id)
           THEN /\ last' = [ op |-> "dropIgnored", taskId |-> targetTaskId, k |-> k,
                             source |-> draggedSubtaskRef[1], position |-> position,
                             pre |-> tasks, preWrites |-> writes ]
                /\ UNCHANGED << tasks, writes, ops >>
           ELSE /\ ops > 0
                /\ ops' = ops - 1
                /\ tasks' = ReplaceTask(tasks, targetTaskId, updatedTask)
                /\ writes' = Append(writes, [ op |-> "put", id |-> targetTaskId,
                                              task |-> updatedTask, cont |-> "drop" ])
                /\ last' = [ op |-> "drop", taskId |-> targetTaskId, k |-> k,
                             source |-> draggedSubtaskRef[1], position |-> position,
                             pre |-> tasks, preWrites |-> writes ]
    /\ UNCHANGED << loadingTaskId, focusedTaskId, openMenuId, isModalOpen, editingTask,
                    store, aiCalls, loadState, nextId, now, failures, dragVars, pureVars >>

\* The drag is over, dropped or not.
HandleSubtaskDragEnd ==
    /\ draggedSubtaskRef # << >>
    /\ draggedSubtaskRef' = << >>
    /\ dragOverInfo' = << >>
    /\ last' = NoOp
    /\ UNCHANGED << tasks, loadingTaskId, focusedTaskId, openMenuId, isModalOpen,
                    editingTask, store, writes, aiCalls, loadState, nextId, now,
                    failures, ops, pureVars >>

\* The continuations whose store call stands inside a try block: the creation
\* of handleSaveTask and handleBreakdownTask.  A rejection of any other store
\* call leaves its handler as a rejected promise nobody handles.
Catches(cont) == cont \in { "saveCreate", "breakdown" }

\* handleSaveTask without the sort of the new list
TasksWithCreatedUnsorted(prev, newTask) == << newTask >> \o prev

\* setTasks(prev => sortTasks([newTask, ...prev]))
TasksWithCreated(prev, newTask) == sortTasks(<< newTask >> \o prev)

\* A store operation completes: the record is written (or the call is
\* rejected) and the handler that awaited it runs to its end.
CompleteWrite(i, ok) ==
    /\ i \in 1..Len(writes)
    /\ ok \/ failures < MaxFailures
    /\ LET w == writes[i]
       IN  /\ writes' = RemoveAt(writes, i)
           /\ failures' = IF ok THEN failures ELSE failures + 1
           /\ store' = IF ~ok THEN store
                       ELSE IF w.op = "delete" THEN StoreDelete(store, w.id)
                       ELSE StorePut(store, w.task)
           /\ last' = [ op |-> "complete", cont |-> w.cont, ok |-> ok,
                        escaped |-> ~ok /\ ~Catches(w.cont) ]
           /\ tasks' = IF ok /\ w.cont = "saveEdit"
                           THEN sortTasks(ReplaceTask(tasks, w.id, w.task))
                       ELSE IF ok /\ w.cont = "saveCreate"
                           THEN TasksWithCreated(tasks, w.task)
                       ELSE tasks
           /\ isModalOpen' = IF w.cont = "saveCreate" \/ (ok /\ w.cont = "saveEdit")
                                THEN FALSE ELSE isModalOpen
           /\ openMenuId' = IF ok /\ w.cont \in { "toggleTask", "delete" }
                                THEN NULL ELSE openMenuId
           /\ loadingTaskId' = IF w.cont = "breakdown" THEN NULL ELSE loadingTaskId
           /\ dragOverInfo' = IF ok /\ w.cont = "drop" THEN << >> ELSE dragOverInfo
    /\ UNCHANGED << focusedTaskId, editingTask, aiCalls, loadState, nextId, now, ops,
                    draggedSubtaskRef, pureVars >>

\* What the user and the services other than the store may do next.
UserOrService ==
    \/ LoadComplete
    \/ \E i \in 1..Len(tasks) : HandleMenuToggle(tasks[i].id)
    \/ HandleClickOutside
    \/ OpenAddModal
    \/ \E i \in 1..Len(tasks) : OpenEditModal(tasks[i])
    \/ CloseModal
    \/ \E f \in Forms : HandleSaveTask(f.text, f.dueDate, f.importance, f.recurring)
    \/ \E i \in 1..Len(tasks), today \in UtcTodays : HandleToggleTask(tasks[i], today)
    \/ \E i \in 1..Len(tasks) : \E k \in 1..Len(tasks[i].subtasks) :
          HandleToggleSubtask(tasks[i].id, k)
    \/ \E i \in 1..Len(tasks) : HandleDeleteTask(tasks[i].id)
    \/ \E i \in 1..Len(tasks) : HandleBreakdownTask(tasks[i])
    \/ \E i \in 1..Len(aiCalls), resp \in AiResponses :
          \E times \in ClockReadings(now, Len(SubtaskTexts(resp).texts)) :
             BreakdownResponse(i, resp, times)
    \/ \E i \in 1..Len(tasks) : \E k \in 1..Len(tasks[i].subtasks) :
          HandleSubtaskDragStart(tasks[i].id, k)
    \/ \E i \in 1..Len(tasks) : \E k \in 1..Len(tasks[i].subtasks) :
          \E position \in { "top", "bottom" } :
             HandleSubtaskDragOver(tasks[i].subtasks[k].id, position)
    \/ HandleSubtaskDragLeave
    \/ \E i \in 1..Len(tasks) : \E k \in 1..Len(tasks[i].subtasks) :
          HandleSubtaskDrop(tasks[i].id, k)
    \/ HandleSubtaskDragEnd

\* The store may complete its operations in any order.
Next ==
    \/ UserOrService
    \/ \E i \in 1..Len(writes), ok \in BOOLEAN : CompleteWrite(i, ok)

\* A store that completes its operations in the order they were issued: the
\* initial read first, then the writes one after the other.
NextFifo ==
    \/ UserOrService
    \/ \E ok \in BOOLEAN : loadState = << >> /\ CompleteWrite(1, ok)

Init == InitProd /\ IdlePure

Spec == Init /\ [][Next]_vars

SpecFifo == Init /\ [][NextFifo]_vars

\* The screen at rest after it has loaded the records `stored`, with `budget`
\* operations to come.
Loaded(stored, budget) ==
    /\ store = stored
    /\ tasks = sortTasks(StoreList(stored))
    /\ loadingTaskId = NULL
    /\ focusedTaskId = NULL
    /\ openMenuId = NULL
    /\ isModalOpen = FALSE
    /\ editingTask = << >>
    /\ writes = << >>
    /\ aiCalls = << >>
    /\ loadState = << >>
    /\ nextId = Cardinality(stored)
    /\ now = 10
    /\ failures = 0
    /\ ops = budget
    /\ draggedSubtaskRef = << >>
    /\ dragOverInfo = << >>
    /\ isTimerActive = FALSE
    /\ deleted = {}
    /\ last = NoOp
    /\ activeButton = "productivity"

(***************************************************************************)
(* SpecToggle: completing and reopening, over every kind of task.          *)
(***************************************************************************)
MaxToggleOps == 2

ToggleDates ==
    { NoDate, DateString(2024, 1, 31), DateString(2024, 2, 29), DateString(2024, 12, 31) }

ToggleSubtaskLists ==
    { << >>,
      << [ id |-> 1, text |-> << "x" >>, completed |-> TRUE ],
         [ id |-> 2, text |-> << "y" >>, completed |-> FALSE ],
         [ id |-> 3, text |-> << "z" >>, completed |-> TRUE ] >> }

\* The tasks a store may hold under the first id: a recurring task is never
\* stored completed.
ToggleTasks ==
    { t \in [ id : { IdOf(1) }, text : { << "a" >> }, completed : BOOLEAN,
              dueDate : ToggleDates, importance : { "high" },
              recurring : { None } \cup Frequencies, subtasks : ToggleSubtaskLists ] :
        ~(t.recurring # None /\ t.completed) }

ToggleOther ==
    [ id |-> IdOf(2), text |-> << "b" >>, completed |-> FALSE,
      dueDate |-> DateString(2024, 2, 15), importance |-> "high", recurring |-> None,
      subtasks |-> << >> ]

InitToggle ==
    /\ \E t \in ToggleTasks : Loaded({ t, ToggleOther }, MaxToggleOps)
    /\ IdlePure

NextToggle ==
    \/ \E i \in 1..Len(tasks) : HandleMenuToggle(tasks[i].id)
    \/ \E i \in 1..Len(tasks), today \in UtcTodays : HandleToggleTask(tasks[i], today)
    \/ \E i \in 1..Len(writes), ok \in BOOLEAN : CompleteWrite(i, ok)

SpecToggle == InitToggle /\ [][NextToggle]_vars

(***************************************************************************)
(* SpecClock: completing a recurring task without a due date at different  *)
(* times of day in different time zones.                                   *)
(***************************************************************************)
MaxClockOps == 2

\* 01:00, 12:00 and 23:00 UTC of 2024-02-29, read in UTC-3, UTC and UTC+9.
ClockTimes == { MakeDay(2024, 1, 29) * 1440 + m : m \in { 60, 720, 1380 } }

TimezoneOffsets == { 180, 0, -540 }

Clocks == [ time : ClockTimes, offset : TimezoneOffsets ]

ClockTasks ==
    { [ id |-> IdOf(1), text |-> << "a" >>, completed |-> FALSE, dueDate |-> d,
        importance |-> "high", recurring |-> f, subtasks |-> << >> ] :
      d \in { NoDate, DateString(2024, 1, 31) }, f \in Frequencies }

InitClock ==
    /\ \E t \in ClockTasks : Loaded({ t }, MaxClockOps)
    /\ IdlePure

NextClock ==
    \/ \E i \in 1..Len(tasks) : HandleMenuToggle(tasks[i].id)
    \/ \E i \in 1..Len(tasks), clock \in Clocks : HandleToggleTaskAt(tasks[i], clock)
    \/ \E ok \in BOOLEAN : CompleteWrite(1, ok)

SpecClock == InitClock /\ [][NextClock]_vars

(***************************************************************************)
(* SpecSubtask: breakdowns and subtask clicks on a loaded screen.          *)
(***************************************************************************)
MaxSubtaskOps == 3

InitSubtask ==
    /\ Loaded({ StoredA, StoredB }, MaxSubtaskOps)
    /\ IdlePure

NextSubtask ==
    \/ \E i \in 1..Len(tasks) : HandleMenuToggle(tasks[i].id)
    \/ \E i \in 1..Len(tasks) : \E k \in 1..Len(tasks[i].subtasks) :
          HandleToggleSubtask(tasks[i].id, k)
    \/ \E i \in 1..Len(tasks) : HandleBreakdownTask(tasks[i])
    \/ \E i \in 1..Len(aiCalls), resp \in AiResponses :
          \E times \in ClockReadings(now, Len(SubtaskTexts(resp).texts)) :
             BreakdownResponse(i, resp, times)
    \/ \E i \in 1..Len(writes), ok \in BOOLEAN : CompleteWrite(i, ok)

SpecSubtask == InitSubtask /\ [][NextSubtask]_vars

(***************************************************************************)
(* SpecDrag: breakdowns and drags of subtasks on a loaded screen with one  *)
(* task.                                                                   *)
(***************************************************************************)
MaxDragOps == 3

\* The stored task before it was first broken down.
DragTask == [ StoredA EXCEPT !.subtasks = << >> ]

InitDrag ==
    /\ Loaded({ DragTask }, MaxDragOps)
    /\ IdlePure

NextDrag ==
    \/ \E i \in 1..Len(tasks) : HandleMenuToggle(tasks[i].id)
    \/ \E i \in 1..Len(tasks) : HandleBreakdownTask(tasks[i])
    \/ \E i \in 1..Len(aiCalls), resp \in AiResponses :
          \E times \in ClockReadings(now, Len(SubtaskTexts(resp).texts)) :
             BreakdownResponse(i, resp, times)
    \/ \E i \in 1..Len(tasks) : \E k \in 1..Len(tasks[i].subtasks) :
          HandleSubtaskDragStart(tasks[i].id, k)
    \/ \E i \in 1..Len(tasks) : \E k \in 1..Len(tasks[i].subtasks) :
          \E position \in { "top", "bottom" } :
             HandleSubtaskDragOver(tasks[i].subtasks[k].id, position)
    \/ HandleSubtaskDragLeave
    \/ \E i \in 1..Len(tasks) : \E k \in 1..Len(tasks[i].subtasks) :
          HandleSubtaskDrop(tasks[i].id, k)
    \/ HandleSubtaskDragEnd
    \/ \E i \in 1..Len(writes), ok \in BOOLEAN : CompleteWrite(i, ok)

SpecDrag == InitDrag /\ [][NextDrag]_vars

(***************************************************************************)
(* SpecDrop: drags of subtasks while a breakdown requested earlier is      *)
(* about to replace the subtasks.  It starts where SpecDelete arrives      *)
(* after Dividir c/ IA on the first task, on the second (which takes the   *)
(* spinner from the first) and on the first again, the first call answered *)
(* and written and the second answered with an empty list: the third call, *)
(* with the subtasks the first task had at the click, is still awaited.    *)
(***************************************************************************)
MaxDropOps == 1

\* The first stored task after its first breakdown.
BrokenDownTask ==
    [ StoredA EXCEPT !.subtasks = @ \o NewSubtasks(<< << "p" >>, << "q" >> >>, << 10, 10 >>) ]

\* The task screen between the first two answers and the one that is awaited.
AwaitingStaleBreakdown ==
    /\ store = { BrokenDownTask, StoredB }
    /\ tasks = << BrokenDownTask, StoredB >>
    /\ loadingTaskId = NULL
    /\ focusedTaskId = NULL
    /\ openMenuId = NULL
    /\ isModalOpen = FALSE
    /\ editingTask = << >>
    /\ writes = << >>
    /\ aiCalls = << StoredA >>
    /\ loadState = << >>
    /\ nextId = 2
    /\ now = 10
    /\ failures = 0
    /\ draggedSubtaskRef = << >>
    /\ dragOverInfo = << >>
    /\ isTimerActive = FALSE
    /\ deleted = {}
    /\ activeButton = "productivity"

InitDrop ==
    /\ AwaitingStaleBreakdown
    /\ ops = MaxDropOps
    /\ last = NoOp
    /\ IdlePure

NextDrop ==
    \/ \E i \in 1..Len(tasks) : HandleMenuToggle(tasks[i].id)
    \/ \E i \in 1..Len(tasks) : HandleBreakdownTask(tasks[i])
    \/ \E i \in 1..Len(aiCalls), resp \in AiResponses :
          \E times \in ClockReadings(now, Len(SubtaskTexts(resp).texts)) :
             BreakdownResponse(i, resp, times)
    \/ \E i \in 1..Len(tasks) : \E k \in 1..Len(tasks[i].subtasks) :
          HandleSubtaskDragStart(tasks[i].id, k)
    \/ \E i \in 1..Len(tasks) : \E k \in 1..Len(tasks[i].subtasks) :
          \E position \in { "top", "bottom" } :
             HandleSubtaskDragOver(tasks[i].subtasks[k].id, position)
    \/ HandleSubtaskDragLeave
    \/ \E i \in 1..Len(tasks) : \E k \in 1..Len(tasks[i].subtasks) :
          HandleSubtaskDrop(tasks[i].id, k)
    \/ HandleSubtaskDragEnd
    \/ \E i \in 1..Len(writes), ok \in BOOLEAN : CompleteWrite(i, ok)

SpecDrop == InitDrop /\ [][NextDrop]_vars

(***************************************************************************)
(* SpecBreakdown: breakdowns answered inside and outside the response      *)
(* schema, among subtask clicks, completions and deletions on a loaded     *)
(* screen.                                                                 *)
(***************************************************************************)
MaxBreakdownOps == 2

InitBreakdown ==
    /\ Loaded({ StoredA, StoredB }, MaxBreakdownOps)
    /\ IdlePure

NextBreakdown ==
    \/ \E i \in 1..Len(tasks) : HandleMenuToggle(tasks[i].id)
    \/ \E i \in 1..Len(tasks) : HandleBreakdownTask(tasks[i])
    \/ \E i \in 1..Len(aiCalls), resp \in AiResponses \cup MalformedAiResponses :
          \E times \in ClockReadings(now, Len(SubtaskTexts(resp).texts)) :
             BreakdownResponse(i, resp, times)
    \/ \E i \in 1..Len(tasks) : \E k \in 1..Len(tasks[i].subtasks) :
          HandleToggleSubtask(tasks[i].id, k)
    \/ \E i \in 1..Len(tasks), today \in UtcTodays : HandleToggleTask(tasks[i], today)
    \/ \E i \in 1..Len(tasks) : HandleDeleteTask(tasks[i].id)
    \/ \E i \in 1..Len(writes), ok \in BOOLEAN : CompleteWrite(i, ok)

SpecBreakdown == InitBreakdown /\ [][NextBreakdown]_vars

(***************************************************************************)
(* SpecDelete: deletions among subtask clicks and breakdowns on a loaded   *)
(* screen, with a store that completes its operations in the order they    *)
(* were issued.                                                            *)
(***************************************************************************)
MaxDeleteOps == 3

InitDelete ==
    /\ Loaded({ StoredA, StoredB }, MaxDeleteOps)
    /\ IdlePure

NextDelete ==
    \/ \E i \in 1..Len(tasks) : HandleMenuToggle(tasks[i].id)
    \/ \E i \in 1..Len(tasks) : \E k \in 1..Len(tasks[i].subtasks) :
          HandleToggleSubtask(tasks[i].id, k)
    \/ \E i \in 1..Len(tasks) : HandleBreakdownTask(tasks[i])
    \/ \E i \in 1..Len(aiCalls), resp \in AiResponses :
          \E times \in ClockReadings(now, Len(SubtaskTexts(resp).texts)) :
             BreakdownResponse(i, resp, times)
    \/ \E i \in 1..Len(tasks) : HandleDeleteTask(tasks[i].id)
    \/ \E ok \in BOOLEAN : CompleteWrite(1, ok)

SpecDelete == InitDelete /\ [][NextDelete]_vars

(***************************************************************************)
(* SpecFocus: choosing the task in focus among creations, edits,           *)
(* completions, breakdowns and deletions on a loaded screen.               *)
(***************************************************************************)
MaxFocusOps == 2

InitFocus ==
    /\ Loaded({ StoredA }, MaxFocusOps)
    /\ IdlePure

NextFocus ==
    \/ \E i \in 1..Len(tasks) : HandleMenuToggle(tasks[i].id)
    \/ \E i \in 1..Len(tasks) : HandleSelectFocusTask(tasks[i])
    \/ SetIsTimerActive
    \/ OpenAddModal
    \/ \E i \in 1..Len(tasks) : OpenEditModal(tasks[i])
    \/ CloseModal
    \/ \E f \in Forms : HandleSaveTask(f.text, f.dueDate, f.importance, f.recurring)
    \/ \E i \in 1..Len(tasks), today \in UtcTodays : HandleToggleTask(tasks[i], today)
    \/ \E i \in 1..Len(tasks) : HandleDeleteTask(tasks[i].id)
    \/ \E i \in 1..Len(tasks) : HandleBreakdownTask(tasks[i])
    \/ \E i \in 1..Len(aiCalls), resp \in AiResponses :
          \E times \in ClockReadings(now, Len(SubtaskTexts(resp).texts)) :
             BreakdownResponse(i, resp, times)
    \/ \E i \in 1..Len(writes), ok \in BOOLEAN : CompleteWrite(i, ok)

SpecFocus == InitFocus /\ [][NextFocus]_vars

(***************************************************************************)
(* The shopping list (SupermarketScreen).  A number is a decimal fraction  *)
(* m / 10^e in lowest form, or NaN; the inputs of SpecMarket are short     *)
(* decimals, whose products are exact.                                     *)
(***************************************************************************)
NaN == [ nan |-> TRUE, m |-> 0, e |-> 0 ]

RECURSIVE Num(_, _)
Num(m, e) ==
    IF e > 0 /\ m % 10 = 0 THEN Num(m \div 10, e - 1)
    ELSE [ nan |-> FALSE, m |-> m, e |-> e ]

Zero == Num(0, 0)

\* a * b
Mul(a, b) == IF a.nan \/ b.nan THEN NaN ELSE Num(a.m * b.m, a.e + b.e)

\* isNaN(a), a > 0, a >= 0, a <= 0: every comparison with NaN is false
IsNaN(a) == a.nan
GtZero(a) == ~a.nan /\ a.m > 0
GeZero(a) == ~a.nan /\ a.m >= 0
LeZero(a) == ~a.nan /\ a.m <= 0

RECURSIVE Pow10(_)
Pow10(e) == IF e = 0 THEN 1 ELSE 10 * Pow10(e - 1)

\* The longest prefix of s made of digits.
RECURSIVE TakeDigits(_)
TakeDigits(s) ==
    IF Len(s) > 0 /\ IsDigit(s[1]) THEN << s[1] >> \o TakeDigits(Tail(s)) ELSE << >>

RECURSIVE TrimStart(_)
TrimStart(s) == IF Len(s) > 0 /\ s[1] = " " THEN TrimStart(Tail(s)) ELSE s

\* str.replace(',', '.'): the first comma only
RECURSIVE ReplaceComma(_)
ReplaceComma(s) ==
    IF Len(s) = 0 THEN s
    ELSE IF s[1] = "," THEN << "." >> \o Tail(s)
    ELSE << s[1] >> \o ReplaceComma(Tail(s))

\* parseFloat(s) of a string without exponent: leading blanks, a sign, the
\* longest decimal literal, the rest ignored; NaN when there is no digit.
ParseFloat(s) ==
    LET t == TrimStart(s)
        signed == Len(t) > 0 /\ t[1] \in { "-", "+" }
        negative == signed /\ t[1] = "-"
        body == IF signed THEN Tail(t) ELSE t
        int == TakeDigits(body)
        rest == SubSeq(body, Len(int) + 1, Len(body))
        frac == IF Len(rest) > 0 /\ rest[1] = "." THEN TakeDigits(Tail(rest)) ELSE << >>
        magnitude == StrToNum(int \o frac)
    IN  IF Len(int) = 0 /\ Len(frac) = 0 THEN NaN
        ELSE Num(IF negative THEN 0 - magnitude ELSE magnitude, Len(frac))

\* n.toString()
RECURSIVE PadFraction(_, _)
PadFraction(s, e) == IF Len(s) < e THEN PadFraction(<< "0" >> \o s, e) ELSE s

NumberToString(n) ==
    IF n.nan THEN << "N", "a", "N" >>
    ELSE LET a == IF n.m < 0 THEN 0 - n.m ELSE n.m
             whole == NumToStr(a \div Pow10(n.e))
             frac == IF n.e = 0 THEN << >>
                     ELSE << "." >> \o PadFraction(NumToStr(a % Pow10(n.e)), n.e)
         IN  (IF n.m < 0 THEN << "-" >> ELSE << >>) \o whole \o frac

\* An optional field of a ListItem: << >> when undefined, << n >> when set.
Undefined == << >>

\* modalItemTotal with the test on q dropped
modalItemTotalAnyQuantity(qty, price) ==
    LET q == ParseFloat(ReplaceComma(qty))
        p == ParseFloat(ReplaceComma(price))
    IN  IF ~IsNaN(q) /\ ~IsNaN(p) THEN Mul(q, p) ELSE Zero

\* modalItemTotal as useMemo computes it from quantity and unitPrice
modalItemTotal(qty, price) ==
    LET q == ParseFloat(ReplaceComma(qty))
        p == ParseFloat(ReplaceComma(price))
    IN  IF ~IsNaN(q) /\ GtZero(q) /\ ~IsNaN(p) /\ GeZero(p) THEN Mul(q, p) ELSE Zero

\* items.map(i => i.id === id ? updated : i)
ReplaceItem(its, id, updated) ==
    [ i \in 1..Len(its) |-> IF its[i].id = id THEN updated ELSE its[i] ]

\* items.filter(item => item.id !== id)
RECURSIVE FilterOutItem(_, _)
FilterOutItem(its, id) ==
    IF Len(its) = 0 THEN << >>
    ELSE (IF its[1].id = id THEN << >> ELSE << its[1] >>) \o FilterOutItem(Tail(its), id)

\* getItems() then dbItems.sort((a, b) => b.id - a.id): the records of the
\* collection, which holds one record per id, by descending id
ItemsDescending(st) ==
    CHOOSE q \in [1..Cardinality(st) -> st] :
        \A i, j \in 1..Cardinality(st) : i < j => q[i].id > q[j].id

\* { ...item, completed: false, quantity: undefined, unitPrice: undefined,
\*   totalPrice: undefined }
ReopenedItem(item) ==
    [ item EXCEPT !.completed = FALSE, !.quantity = Undefined, !.unitPrice = Undefined,
                  !.totalPrice = Undefined ]

\* { ...modalItem, completed: true, quantity: parseFloat(...),
\*   unitPrice: parseFloat(...), totalPrice: modalItemTotal }
PricedItem(item, qty, price) ==
    [ item EXCEPT !.completed = TRUE,
                  !.quantity = << ParseFloat(ReplaceComma(qty)) >>,
                  !.unitPrice = << ParseFloat(ReplaceComma(price)) >>,
                  !.totalPrice = << modalItemTotal(qty, price) >> ]

MaxMarketOps == 2

\* What the text field of the add form may hold.
ItemTexts == { << >>, << " " >>, << "c" >> }
\* What the quantity field (type="number") and the price field (type="text")
\* of the price modal may hold.
QuantityInputs == { << >>, << "0" >>, << "2" >>, << "1", ".", "5" >>, << "-", "1" >> }
UnitPriceInputs == { << >>, << "0" >>, << "3", ",", "5" >>, << "-", "2" >>, << "x" >> }

ItemA == [ id |-> 1, text |-> << "a" >>, completed |-> FALSE, quantity |-> Undefined,
           unitPrice |-> Undefined, totalPrice |-> Undefined ]
ItemB == [ id |-> 2, text |-> << "b" >>, completed |-> TRUE, quantity |-> << Num(2, 0) >>,
           unitPrice |-> << Num(35, 1) >>, totalPrice |-> << Num(7, 0) >> ]
InitialItemStores == { {}, { ItemA, ItemB } }

\* Neither modal covers the list.
ListReachable == modalItem = << >> /\ ~showClearConfirm

taskScreenVars == << tasks, loadingTaskId, focusedTaskId, openMenuId, isModalOpen,
                     editingTask, store, writes, aiCalls, loadState, nextId, dragVars,
                     timerVars, historyVars >>
functionVars == << dateVars, sortVars, appVars, pc >>

\* loadData: getItems() resolves and the list is replaced, or it rejects.
ItemsLoadComplete ==
    /\ itemsLoad # << >>
    /\ itemsLoad' = << >>
    /\ last' = [ op |-> "itemsLoad", pre |-> items ]
    /\ \E ok \in BOOLEAN :
        /\ ok \/ failures < MaxFailures
        /\ failures' = IF ok THEN failures ELSE failures + 1
        /\ items' = IF ok THEN ItemsDescending(itemStore) ELSE items
    /\ UNCHANGED << inputValue, modalItem, quantity, unitPrice, showClearConfirm,
                    itemStore, itemWrites, now, ops, taskScreenVars, functionVars, financeVars >>

\* onChange of the three text fields
SetInputValue ==
    /\ ListReachable
    /\ \E text \in ItemTexts : text # inputValue /\ inputValue' = text
    /\ last' = NoOp
    /\ UNCHANGED << items, modalItem, quantity, unitPrice, showClearConfirm, itemStore,
                    itemWrites, itemsLoad, now, failures, ops, taskScreenVars,
                    functionVars, financeVars >>

SetQuantity ==
    /\ modalItem # << >>
    /\ \E text \in QuantityInputs : text # quantity /\ quantity' = text
    /\ last' = NoOp
    /\ UNCHANGED << items, inputValue, modalItem, unitPrice, showClearConfirm, itemStore,
                    itemWrites, itemsLoad, now, failures, ops, taskScreenVars,
                    functionVars, financeVars >>

SetUnitPrice ==
    /\ modalItem # << >>
    /\ \E text \in UnitPriceInputs : text # unitPrice /\ unitPrice' = text
    /\ last' = NoOp
    /\ UNCHANGED << items, inputValue, modalItem, quantity, showClearConfirm, itemStore,
                    itemWrites, itemsLoad, now, failures, ops, taskScreenVars,
                    functionVars, financeVars >>

\* handleAddItem up to its await; Date.now() is read once.
HandleAddItem ==
    /\ ListReachable
    /\ IF IsBlank(inputValue)
       THEN /\ last' = [ op |-> "addRejected", text |-> inputValue, pre |-> items,
                         preWrites |-> itemWrites,
                         preStore |-> itemStore ]
            /\ UNCHANGED << items, inputValue, itemWrites, now, ops >>
       ELSE /\ ops > 0
            /\ ops' = ops - 1
            /\ \E t \in now..(now + MaxClockStep) :
                LET newItem == [ id |-> t, text |-> inputValue, completed |-> FALSE,
                                 quantity |-> Undefined, unitPrice |-> Undefined,
                                 totalPrice |-> Undefined ]
                IN  /\ now' = t
                    /\ items' = << newItem >> \o items
                    /\ itemWrites' = Append(itemWrites,
                                            [ kind |-> "add", item |-> newItem,
                                              then |-> "nothing" ])
                    /\ last' = [ op |-> "add", id |-> t, text |-> inputValue,
                                 pre |-> items ]
            /\ inputValue' = << >>
    /\ UNCHANGED << modalItem, quantity, unitPrice, showClearConfirm, itemStore, itemsLoad,
                    failures, taskScreenVars, functionVars, financeVars >>

\* handleCheckmarkClick(items[k]) up to its await
HandleCheckmarkClick ==
    /\ ListReachable
    /\ \E k \in 1..Len(items) :
        LET item == items[k]
        IN  IF item.completed
            THEN /\ ops > 0
                 /\ ops' = ops - 1
                 /\ items' = ReplaceItem(items, item.id, ReopenedItem(item))
                 /\ itemWrites' = Append(itemWrites,
                                         [ kind |-> "put", item |-> ReopenedItem(item),
                                           then |-> "nothing" ])
                 /\ last' = [ op |-> "reopen", id |-> item.id, pre |-> items ]
                 /\ UNCHANGED << modalItem, quantity, unitPrice >>
            ELSE /\ modalItem' = << item >>
                 /\ quantity' = IF item.quantity = Undefined THEN << "1" >>
                                ELSE NumberToString(item.quantity[1])
                 /\ unitPrice' = IF item.unitPrice = Undefined THEN << >>
                                 ELSE NumberToString(item.unitPrice[1])
                 /\ last' = NoOp
                 /\ UNCHANGED << items, itemWrites, ops >>
    /\ UNCHANGED << inputValue, showClearConfirm, itemStore, itemsLoad, now, failures,
                    taskScreenVars, functionVars, financeVars >>

\* Cancelar of the price modal: setModalItem(null)
CancelPriceModal ==
    /\ modalItem # << >>
    /\ modalItem' = << >>
    /\ last' = NoOp
    /\ UNCHANGED << items, inputValue, quantity, unitPrice, showClearConfirm, itemStore,
                    itemWrites, itemsLoad, now, failures, ops, taskScreenVars,
                    functionVars, financeVars >>

\* handleModalConfirm up to its await
HandleModalConfirm ==
    /\ modalItem # << >>
    /\ IF LeZero(modalItemTotal(quantity, unitPrice))
       THEN /\ last' = [ op |-> "confirmRejected", quantity |-> quantity,
                         unitPrice |-> unitPrice, pre |-> items,
                         preWrites |-> itemWrites,
                         preStore |-> itemStore ]
            /\ UNCHANGED << items, itemWrites, ops >>
       ELSE LET updatedItem == PricedItem(modalItem[1], quantity, unitPrice)
            IN  /\ ops > 0
                /\ ops' = ops - 1
                /\ items' = ReplaceItem(items, updatedItem.id, updatedItem)
                /\ itemWrites' = Append(itemWrites,
                                        [ kind |-> "put", item |-> updatedItem,
                                          then |-> "closeModal" ])
                /\ last' = [ op |-> "confirm", id |-> updatedItem.id, pre |-> items,
                             quantity |-> quantity, unitPrice |-> unitPrice ]
    /\ UNCHANGED << inputValue, modalItem, quantity, unitPrice, showClearConfirm,
                    itemStore, itemsLoad, now, failures, taskScreenVars, functionVars, financeVars >>

\* handleDeleteItem(items[k].id) up to its await
HandleDeleteItem ==
    /\ ListReachable
    /\ ops > 0
    /\ ops' = ops - 1
    /\ \E k \in 1..Len(items) :
        /\ items' = FilterOutItem(items, items[k].id)
        /\ itemWrites' = Append(itemWrites,
                                [ kind |-> "delete", item |-> items[k],
                                  then |-> "nothing" ])
        /\ last' = [ op |-> "deleteItem", id |-> items[k].id, pre |-> items ]
    /\ UNCHANGED << inputValue, modalItem, quantity, unitPrice, showClearConfirm,
                    itemStore, itemsLoad, now, failures, taskScreenVars, functionVars, financeVars >>

\* The two Limpar Lista buttons and Cancelar of the confirmation
SetShowClearConfirm ==
    /\ \/ ListReachable /\ Len(items) > 0 /\ showClearConfirm' = TRUE
       \/ showClearConfirm /\ showClearConfirm' = FALSE
    /\ last' = NoOp
    /\ UNCHANGED << items, inputValue, modalItem, quantity, unitPrice, itemStore,
                    itemWrites, itemsLoad, now, failures, ops, taskScreenVars,
                    functionVars, financeVars >>

\* confirmClearList up to its await
ConfirmClearList ==
    /\ showClearConfirm
    /\ ops > 0
    /\ ops' = ops - 1
    /\ itemWrites' = Append(itemWrites,
                            [ kind |-> "clear", item |-> << >>, then |-> "clear" ])
    /\ last' = [ op |-> "clearList", pre |-> items ]
    /\ UNCHANGED << items, inputValue, modalItem, quantity, unitPrice, showClearConfirm,
                    itemStore, itemsLoad, now, failures, taskScreenVars, functionVars, financeVars >>

\* The store settles the i-th operation in flight and the handler that
\* awaits it runs to its end.  add() rejects a key the collection holds.
CompleteItemWrite(i, ok) ==
    /\ i \in 1..Len(itemWrites)
    /\ ok \/ failures < MaxFailures
    /\ LET w == itemWrites[i]
           done == ok /\ ~(w.kind = "add" /\ \E u \in itemStore : u.id = w.item.id)
       IN  /\ failures' = IF ok THEN failures ELSE failures + 1
           /\ itemStore' =
                IF ~done THEN itemStore
                ELSE IF w.kind = "clear" THEN {}
                ELSE IF w.kind = "delete" THEN { u \in itemStore : u.id # w.item.id }
                ELSE { u \in itemStore : u.id # w.item.id } \cup { w.item }
           /\ items' = IF w.then = "clear" /\ done THEN << >> ELSE items
           /\ showClearConfirm' = IF w.then = "clear" THEN FALSE ELSE showClearConfirm
           /\ modalItem' = IF w.then = "closeModal" THEN << >> ELSE modalItem
           /\ quantity' = IF w.then = "closeModal" THEN << "1" >> ELSE quantity
           /\ unitPrice' = IF w.then = "closeModal" THEN << >> ELSE unitPrice
    /\ itemWrites' = RemoveAt(itemWrites, i)
    /\ last' = NoOp
    /\ UNCHANGED << inputValue, itemsLoad, now, ops, taskScreenVars, functionVars, financeVars >>

NextMarket ==
    \/ ItemsLoadComplete
    \/ SetInputValue
    \/ SetQuantity
    \/ SetUnitPrice
    \/ HandleAddItem
    \/ HandleCheckmarkClick
    \/ CancelPriceModal
    \/ HandleModalConfirm
    \/ HandleDeleteItem
    \/ SetShowClearConfirm
    \/ ConfirmClearList
    \/ \E i \in 1..Len(itemWrites), ok \in BOOLEAN : CompleteItemWrite(i, ok)

\* SupermarketScreen has just been mounted, with `budget` operations to come.
MarketMounted(budget) ==
    /\ IdleTasks
    /\ Showing("supermarket", budget)
    /\ IdleFunctions
    /\ IdleFinance
    /\ items = << >>
    /\ inputValue = << >>
    /\ modalItem = << >>
    /\ quantity = << "1" >>
    /\ unitPrice = << >>
    /\ showClearConfirm = FALSE
    /\ itemStore \in InitialItemStores
    /\ itemWrites = << >>
    /\ itemsLoad = << TRUE >>

InitMarket == MarketMounted(MaxMarketOps)

SpecMarket == InitMarket /\ [][NextMarket]_vars

(***************************************************************************)
(* The finances (FinancesScreen).  Amounts are decimal fractions as on the *)
(* shopping list; localStorage is rewritten by the effect that follows     *)
(* every change of the transactions.                                       *)
(***************************************************************************)
\* -a and Math.abs(a)
Neg(a) == IF a.nan THEN NaN ELSE Num(0 - a.m, a.e)
Abs(a) == IF a.nan THEN NaN ELSE Num(IF a.m < 0 THEN 0 - a.m ELSE a.m, a.e)

\* str.replace('.', ','): the first dot only
RECURSIVE ReplaceDot(_)
ReplaceDot(s) ==
    IF Len(s) = 0 THEN s
    ELSE IF s[1] = "." THEN << "," >> \o Tail(s)
    ELSE << s[1] >> \o ReplaceDot(Tail(s))

MaxFinanceOps == 2

\* What the description and amount fields (type="text") may hold, and the
\* entries of the category select, which leaves out salary.
Descriptions == { << " " >>, << "d" >> }
Amounts == { << "0" >>, << "2", ",", "5" >>, << "-", "1" >> }
SelectableCategories == { "food" }

TxSalary == [ id |-> << "1" >>, description |-> << "d" >>, amount |-> Num(25, 1),
              date |-> DateString(2024, 1, 31), category |-> "salary", recurring |-> None ]
TxBill == [ id |-> << "2" >>, description |-> << "d" >>, amount |-> Num(-25, 1),
            date |-> DateString(2024, 1, 31), category |-> "bills", recurring |-> "monthly" ]
\* What localStorage may hold at the start: nothing (mockTransactions is
\* used, which is empty) or what an earlier session saved.
InitialTransactions == { << >>, << TxSalary, TxBill >> }

\* resetFormFields, with `today` the UTC date of the call
ResetForm(today) ==
    [ description |-> << >>, amount |-> << >>, date |-> today, type |-> "expense",
      category |-> "shopping", isRecurring |-> FALSE, recurrenceFrequency |-> "monthly" ]

\* initialState of openFormForEdit
EditForm(tx) ==
    [ description |-> tx.description,
      amount |-> ReplaceDot(NumberToString(Abs(tx.amount))),
      date |-> tx.date,
      type |-> IF GtZero(tx.amount) THEN "income" ELSE "expense",
      category |-> tx.category,
      isRecurring |-> tx.recurring # None,
      recurrenceFrequency |-> IF tx.recurring # None THEN tx.recurring ELSE "monthly" ]

\* parseFloat(amount.replace(',', '.'))
numericAmount(f) == ParseFloat(ReplaceComma(f.amount))

\* The same test without the comparison of the amount with 0
SaveRejectedUnlessNaN(f) == IsBlank(f.description) \/ IsNaN(numericAmount(f))

\* The test that makes handleSaveTransaction return at once.
SaveRejected(f) ==
    IsBlank(f.description) \/ IsNaN(numericAmount(f)) \/ LeZero(numericAmount(f))

\* The category of the form, kept also for an income
SavedCategoryAsSelected(f) == f.category

\* category: type === 'income' ? 'salary' : category
SavedCategory(f) == IF f.type = "income" THEN "salary" ELSE f.category

\* { ...tx, ...transactionData }: recurring is among the data only when the
\* switch is on
MergeTransaction(tx, f) ==
    [ tx EXCEPT !.description = f.description,
                !.amount = IF f.type = "income" THEN numericAmount(f)
                           ELSE Neg(numericAmount(f)),
                !.date = f.date,
                !.category = SavedCategory(f),
                !.recurring = IF f.isRecurring THEN f.recurrenceFrequency ELSE @ ]

\* { id: Date.now().toString(), ...transactionData }
NewTransaction(t, f) ==
    MergeTransaction([ id |-> NumToStr(t), description |-> << >>, amount |-> Zero,
                       date |-> NoDate, category |-> "other", recurring |-> None ], f)

\* prev.map(tx => tx.id === id ? { ...tx, ...transactionData } : tx)
MapTransactions(txs, id, f) ==
    [ i \in 1..Len(txs) |-> IF txs[i].id = id THEN MergeTransaction(txs[i], f) ELSE txs[i] ]

\* prev.filter(tx => tx.id !== id)
RECURSIVE FilterOutTransaction(_, _)
FilterOutTransaction(txs, id) ==
    IF Len(txs) = 0 THEN << >>
    ELSE (IF txs[1].id = id THEN << >> ELSE << txs[1] >>)
         \o FilterOutTransaction(Tail(txs), id)

\* The effect on [transactions]: localStorage.setItem, which may throw.
PersistTransactions(txs, ok) ==
    /\ ok \/ failures < MaxFailures
    /\ failures' = IF ok THEN failures ELSE failures + 1
    /\ storedTransactions' = IF ok THEN txs ELSE storedTransactions

openFormForNew ==
    /\ ~isFormVisible
    /\ \E today \in UtcTodays : form' = ResetForm(today)
    /\ editingTransactionId' = NULL
    /\ isFormVisible' = TRUE
    /\ last' = NoOp
    /\ UNCHANGED << transactions, storedTransactions, closeTimers, deleteTimers, tasks,
                    loadingTaskId, focusedTaskId, openMenuId, isModalOpen, editingTask,
                    store, writes, aiCalls, loadState, nextId, now, failures, ops,
                    dragVars, timerVars, historyVars, dateVars, sortVars, marketVars, appVars, pc >>

\* A swipe to the right on transactions[k]
openFormForEdit ==
    /\ ~isFormVisible
    /\ \E k \in 1..Len(transactions) :
        /\ form' = EditForm(transactions[k])
        /\ editingTransactionId' = transactions[k].id
    /\ isFormVisible' = TRUE
    /\ last' = NoOp
    /\ UNCHANGED << transactions, storedTransactions, closeTimers, deleteTimers, tasks,
                    loadingTaskId, focusedTaskId, openMenuId, isModalOpen, editingTask,
                    store, writes, aiCalls, loadState, nextId, now, failures, ops,
                    dragVars, timerVars, historyVars, dateVars, sortVars, marketVars, appVars, pc >>

\* onChange of a field of the form; the category select is shown for an
\* expense.  The recurrence is left at what the form was opened with.
SetFormField ==
    /\ isFormVisible
    /\ \/ \E d \in Descriptions : form' = [ form EXCEPT !.description = d ]
       \/ \E a \in Amounts : form' = [ form EXCEPT !.amount = a ]
       \/ \E t \in { "expense", "income" } : form' = [ form EXCEPT !.type = t ]
       \/ /\ form.type = "expense"
          /\ \E c \in SelectableCategories : form' = [ form EXCEPT !.category = c ]
    /\ form' # form
    /\ last' = NoOp
    /\ UNCHANGED << transactions, storedTransactions, isFormVisible, editingTransactionId,
                    closeTimers, deleteTimers, tasks, loadingTaskId, focusedTaskId,
                    openMenuId, isModalOpen, editingTask, store, writes, aiCalls,
                    loadState, nextId, now, failures, ops, dragVars, timerVars, historyVars, dateVars,
                    sortVars, marketVars, appVars, pc >>

\* Cancelar, followed by Descartar when the form has unsaved changes: closeForm
closeForm ==
    /\ isFormVisible
    /\ isFormVisible' = FALSE
    /\ editingTransactionId' = NULL
    /\ last' = NoOp
    /\ UNCHANGED << transactions, storedTransactions, form, closeTimers, deleteTimers,
                    tasks, loadingTaskId, focusedTaskId, openMenuId, isModalOpen,
                    editingTask, store, writes, aiCalls, loadState, nextId, now, failures,
                    ops, dragVars, timerVars, historyVars, dateVars, sortVars, marketVars, appVars, pc >>

\* The callback of setTimeout(..., 1500) in handleSaveTransaction
CloseTimeout ==
    /\ closeTimers > 0
    /\ closeTimers' = closeTimers - 1
    /\ isFormVisible' = FALSE
    /\ editingTransactionId' = NULL
    /\ last' = NoOp
    /\ UNCHANGED << transactions, storedTransactions, form, deleteTimers, tasks,
                    loadingTaskId, focusedTaskId, openMenuId, isModalOpen, editingTask,
                    store, writes, aiCalls, loadState, nextId, now, failures, ops,
                    dragVars, timerVars, historyVars, dateVars, sortVars, marketVars, appVars, pc >>

\* Submission of the form, with the effect that follows a change of the
\* transactions.
handleSaveTransaction ==
    /\ isFormVisible
    /\ IF SaveRejected(form)
       THEN /\ last' = [ op |-> "saveTxRejected", pre |-> transactions,
                         preStored |-> storedTransactions ]
            /\ UNCHANGED << transactions, storedTransactions, closeTimers, now, failures,
                            ops >>
       ELSE /\ ops > 0
            /\ ops' = ops - 1
            /\ closeTimers' = closeTimers + 1
            /\ \E ok \in BOOLEAN :
                IF editingTransactionId # NULL
                THEN /\ transactions' =
                            MapTransactions(transactions, editingTransactionId, form)
                     /\ PersistTransactions(transactions', ok)
                     /\ last' = [ op |-> "editTx", id |-> editingTransactionId ]
                     /\ UNCHANGED now
                ELSE \E t \in now..(now + MaxClockStep) :
                        /\ now' = t
                        /\ transactions' = << NewTransaction(t, form) >> \o transactions
                        /\ PersistTransactions(transactions', ok)
                        /\ last' = [ op |-> "createTx", id |-> NumToStr(t) ]
    /\ UNCHANGED << isFormVisible, editingTransactionId, form, deleteTimers, tasks,
                    loadingTaskId, focusedTaskId, openMenuId, isModalOpen, editingTask,
                    store, writes, aiCalls, loadState, nextId, dragVars, timerVars, historyVars,
                    dateVars, sortVars, marketVars, appVars, pc >>

\* A swipe to the left on transactions[k]: handleDelete up to its timer
handleDelete ==
    /\ ~isFormVisible
    /\ ops > 0
    /\ ops' = ops - 1
    /\ \E k \in 1..Len(transactions) :
        deleteTimers' = deleteTimers \cup { transactions[k].id }
    /\ deleteTimers' # deleteTimers
    /\ last' = NoOp
    /\ UNCHANGED << transactions, storedTransactions, isFormVisible, editingTransactionId,
                    form, closeTimers, tasks, loadingTaskId, focusedTaskId, openMenuId,
                    isModalOpen, editingTask, store, writes, aiCalls, loadState, nextId,
                    now, failures, dragVars, timerVars, historyVars, dateVars, sortVars, marketVars,
                    appVars, pc >>

\* The callback of setTimeout(..., 300) in handleDelete, with the effect
\* that follows.
DeleteTimeout ==
    \E id \in deleteTimers, ok \in BOOLEAN :
        /\ deleteTimers' = deleteTimers \ { id }
        /\ transactions' = FilterOutTransaction(transactions, id)
        /\ PersistTransactions(transactions', ok)
        /\ last' = [ op |-> "deleteTx", id |-> id ]
        /\ UNCHANGED << isFormVisible, editingTransactionId, form, closeTimers, tasks,
                        loadingTaskId, focusedTaskId, openMenuId, isModalOpen,
                        editingTask, store, writes, aiCalls, loadState, nextId, now, ops,
                        dragVars, timerVars, historyVars, dateVars, sortVars, marketVars, appVars, pc >>

NextFinance ==
    \/ openFormForNew
    \/ openFormForEdit
    \/ SetFormField
    \/ closeForm
    \/ CloseTimeout
    \/ handleSaveTransaction
    \/ handleDelete
    \/ DeleteTimeout

\* FinancesScreen has just been mounted, with `budget` operations to come.
FinanceMounted(budget) ==
    /\ IdleTasks
    /\ Showing("finances", budget)
    /\ IdleFunctions
    /\ IdleMarket
    /\ transactions \in InitialTransactions
    /\ storedTransactions = transactions
    /\ isFormVisible = FALSE
    /\ editingTransactionId = NULL
    /\ form \in { ResetForm(today) : today \in UtcTodays }
    /\ closeTimers = 0
    /\ deleteTimers = {}

InitFinance == FinanceMounted(MaxFinanceOps)

SpecFinance == InitFinance /\ [][NextFinance]_vars

(***************************************************************************)
(* SpecRecurrence: the transactions and their form with the recurrence     *)
(* switch and its frequency, from a stored income and a stored recurring   *)
(* expense.                                                                *)
(***************************************************************************)
MaxRecurrenceOps == 1

RecurrenceFrequencies == { "weekly", "monthly" }

\* The switch Transação Recorrente, and the frequency select it uncovers.
SetRecurrence ==
    /\ isFormVisible
    /\ \/ form' = [ form EXCEPT !.isRecurring = ~@ ]
       \/ /\ form.isRecurring
          /\ \E fr \in RecurrenceFrequencies : form' = [ form EXCEPT !.recurrenceFrequency = fr ]
    /\ form' # form
    /\ last' = NoOp
    /\ UNCHANGED << transactions, storedTransactions, isFormVisible, editingTransactionId,
                    closeTimers, deleteTimers, tasks, loadingTaskId, focusedTaskId,
                    openMenuId, isModalOpen, editingTask, store, writes, aiCalls,
                    loadState, nextId, now, failures, ops, dragVars, timerVars,
                    historyVars, dateVars, sortVars, marketVars, appVars, pc >>

InitRecurrence ==
    /\ FinanceMounted(MaxRecurrenceOps)
    /\ transactions = << TxSalary, TxBill >>

NextRecurrence ==
    \/ NextFinance
    \/ SetRecurrence

SpecRecurrence == InitRecurrence /\ [][NextRecurrence]_vars

(***************************************************************************)
(* SpecInput: what is typed into the forms of the three screens and        *)
(* submitted, one screen per behaviour.                                    *)
(***************************************************************************)
MaxInputOps == 1

InitInput ==
    \/ Loaded({ StoredA }, MaxInputOps) /\ IdlePure
    \/ MarketMounted(MaxInputOps)
    \/ FinanceMounted(MaxInputOps)

NextInput ==
    \/ /\ activeButton = "productivity"
       /\ \/ \E i \in 1..Len(tasks) : HandleMenuToggle(tasks[i].id)
          \/ OpenAddModal
          \/ \E i \in 1..Len(tasks) : OpenEditModal(tasks[i])
          \/ CloseModal
          \/ \E f \in Forms : HandleSaveTask(f.text, f.dueDate, f.importance, f.recurring)
          \/ \E i \in 1..Len(writes), ok \in BOOLEAN : CompleteWrite(i, ok)
    \/ activeButton = "supermarket" /\ NextMarket
    \/ activeButton = "finances" /\ NextFinance

SpecInput == InitInput /\ [][NextInput]_vars


(***************************************************************************)
(* SpecDate: calculateNextDueDate applied to every date of Years and every *)
(* frequency.                                                              *)
(***************************************************************************)
InitDate ==
    /\ IdleProd
    /\ IdleMarket
    /\ IdleFinance
    /\ currentDateStr \in ValidDates
    /\ frequency \in Frequencies
    /\ nextDue = NoDate
    /\ xs = << >>
    /\ sorted = << >>
    /\ pc = "in"

CalcNextDueDate ==
    /\ pc = "in"
    /\ nextDue' = calculateNextDueDate(currentDateStr, frequency)
    /\ pc' = "out"
    /\ UNCHANGED << prodVars, timerVars, historyVars, currentDateStr, frequency, sortVars, marketVars,
                    financeVars, appVars >>

NextDate == CalcNextDueDate

SpecDate == InitDate /\ [][NextDate]_vars

(***************************************************************************)
(* SpecSort: sortTasks applied to every task list of TaskLists.            *)
(***************************************************************************)
InitSort ==
    /\ IdleProd
    /\ IdleMarket
    /\ IdleFinance
    /\ xs \in TaskLists
    /\ sorted = << >>
    /\ currentDateStr = NoDate
    /\ frequency = None
    /\ nextDue = NoDate
    /\ pc = "in"

ApplySortTasks ==
    /\ pc = "in"
    /\ sorted' = sortTasks(xs)
    /\ pc' = "out"
    /\ UNCHANGED << prodVars, timerVars, historyVars, dateVars, xs, marketVars, financeVars,
                    appVars >>

NextSort == ApplySortTasks

SpecSort == InitSort /\ [][NextSort]_vars

(***************************************************************************)
(* C3.  The calendar, written on (year, month, day) without day numbers.   *)
(***************************************************************************)
RefNextDay(t) ==
    IF t[3] < DaysInMonth(t[1], t[2]) THEN << t[1], t[2], t[3] + 1 >>
    ELSE IF t[2] < 12 THEN << t[1], t[2] + 1, 1 >>
    ELSE << t[1] + 1, 1, 1 >>

RECURSIVE RefAddDays(_, _)
RefAddDays(t, n) == IF n = 0 THEN t ELSE RefAddDays(RefNextDay(t), n - 1)

\* Day d of month m of year y, running over into the month after it when month
\* m has fewer than d days.
RefSameDay(y, m, d) ==
    IF d <= DaysInMonth(y, m) THEN << y, m, d >>
    ELSE << y, m + 1, d - DaysInMonth(y, m) >>

RefNext(t, freq) ==
    CASE freq = "daily" -> RefNextDay(t)
      [] freq = "weekly" -> RefAddDays(t, 7)
      [] freq = "monthly" ->
            IF t[2] = 12 THEN RefSameDay(t[1] + 1, 1, t[3])
            ELSE RefSameDay(t[1], t[2] + 1, t[3])
      [] freq = "yearly" -> RefSameDay(t[1] + 1, t[2], t[3])

YMDLess(a, b) ==
    \/ a[1] < b[1]
    \/ a[1] = b[1] /\ a[2] < b[2]
    \/ a[1] = b[1] /\ a[2] = b[2] /\ a[3] < b[3]

ZeroPadded(s) ==
    /\ Len(s) = 10
    /\ s[5] = "-" /\ s[8] = "-"
    /\ \A i \in {1, 2, 3, 4, 6, 7, 9, 10} : IsDigit(s[i])

\* C3: for every valid date and frequency calculateNextDueDate returns the date
\* the calendar gives (next day, seven days on, same day next month or next year
\* with overflow into the following month), zero-padded and strictly later;
\* with the literal results the specification lists.
C3_NextDueDateIsCalendarDate ==
    pc = "out" =>
        /\ \A t \in ValidYMD :
              currentDateStr = DateString(t[1], t[2], t[3]) =>
                  LET r == RefNext(t, frequency)
                  IN  /\ nextDue = DateString(r[1], r[2], r[3])
                      /\ YMDLess(t, r)
        /\ ZeroPadded(nextDue)
        /\ (currentDateStr = << "2", "0", "2", "4", "-", "0", "1", "-", "1", "5" >>
                /\ frequency = "monthly")
              => nextDue = << "2", "0", "2", "4", "-", "0", "2", "-", "1", "5" >>
        /\ (currentDateStr = << "2", "0", "2", "4", "-", "1", "2", "-", "3", "1" >>
                /\ frequency = "daily")
              => nextDue = << "2", "0", "2", "5", "-", "0", "1", "-", "0", "1" >>
        /\ (currentDateStr = << "2", "0", "2", "4", "-", "0", "1", "-", "3", "1" >>
                /\ frequency = "monthly")
              => nextDue = << "2", "0", "2", "4", "-", "0", "3", "-", "0", "2" >>
        /\ (currentDateStr = << "2", "0", "2", "4", "-", "0", "2", "-", "2", "9" >>
                /\ frequency = "yearly")
              => nextDue = << "2", "0", "2", "5", "-", "0", "3", "-", "0", "1" >>

\* C3 witness: the monthly successor of 2024-01-31 was computed and ran over
\* into March.
C3_Witness ==
    /\ pc = "out"
    /\ currentDateStr = << "2", "0", "2", "4", "-", "0", "1", "-", "3", "1" >>
    /\ frequency = "monthly"
    /\ nextDue = << "2", "0", "2", "4", "-", "0", "3", "-", "0", "2" >>

(***************************************************************************)
(* C4 .. C7.  The order sortTasks produces.                                *)
(***************************************************************************)
SamePositions(ts, us) ==
    /\ Len(ts) = Len(us)
    /\ \E p \in [1..Len(ts) -> 1..Len(ts)] :
          /\ \A i, j \in 1..Len(ts) : i # j => p[i] # p[j]
          /\ \A i \in 1..Len(ts) : us[i] = ts[p[i]]

Rank(t) == CASE t.importance = "high" -> 1
             [] t.importance = "medium" -> 2
             [] t.importance = "low" -> 3
             [] t.importance = None -> 4

\* C4: sortTasks(xs) holds the tasks of xs, every incomplete high task before
\* every incomplete medium or low task, and every incomplete task before every
\* completed one, whatever their dates and ids.
C4_ImportanceAndCompletionFirst ==
    pc = "out" =>
        /\ SamePositions(xs, sorted)
        /\ \A i, j \in 1..Len(sorted) :
              /\ (/\ ~sorted[i].completed /\ sorted[i].importance = "high"
                  /\ ~sorted[j].completed /\ sorted[j].importance \in { "medium", "low" })
                    => i < j
              /\ (~sorted[i].completed /\ sorted[j].completed) => i < j

\* C4 witness: a list that began with a completed task and a low task before a
\* high one was sorted.
C4_Witness ==
    /\ pc = "out"
    /\ Len(xs) = 3
    /\ xs[1].completed
    /\ ~xs[2].completed /\ xs[2].importance = "low" /\ xs[2].dueDate # NoDate
    /\ ~xs[3].completed /\ xs[3].importance = "high" /\ xs[3].dueDate = NoDate
    /\ sorted = << xs[3], xs[2], xs[1] >>

\* C5 (the claim as stated): incomplete tasks of equal rank are ordered by due
\* date ascending, dated before dateless, and every remaining tie, as every pair
\* of completed tasks, by id descending.
C5_TiesByDateThenIdDescending ==
    pc = "out" =>
        \A i, j \in 1..Len(sorted) :
            i < j =>
                LET a == sorted[i]
                    b == sorted[j]
                IN  /\ (~a.completed /\ ~b.completed /\ Rank(a) = Rank(b)) =>
                          IF a.dueDate # NoDate /\ b.dueDate # NoDate /\ a.dueDate # b.dueDate
                              THEN ParseMidday(a.dueDate) < ParseMidday(b.dueDate)
                          ELSE IF a.dueDate # b.dueDate THEN b.dueDate = NoDate
                          ELSE StrLess(b.id, a.id)
                    /\ (a.completed /\ b.completed) => StrLess(b.id, a.id)

\* C6: sorting a sorted list changes nothing.
C6_SortIdempotent ==
    pc = "out" => sortTasks(sorted) = sorted

\* C6 witness: a list with two tasks the comparator holds equal was put into
\* another order by the sort.
C6_Witness ==
    /\ pc = "out"
    /\ Len(xs) = 3
    /\ sorted # xs
    /\ \E i, j \in 1..3 : i # j /\ CompareTasks(xs[i], xs[j]) = 0

Permuted(ts, p) == [ i \in 1..Len(ts) |-> ts[p[i]] ]

Bijections(n) == { p \in [1..n -> 1..n] : \A i, j \in 1..n : i # j => p[i] # p[j] }

\* C7 (the claim as stated): the result is a permutation of the input, the same
\* for every order of the input, and the comparator returns 0 for no two tasks
\* of distinct ids.
C7_SortIsTotalOrder ==
    pc = "out" =>
        /\ SamePositions(xs, sorted)
        /\ \A p \in Bijections(Len(xs)) : sortTasks(Permuted(xs, p)) = sorted
        /\ \A i, j \in 1..Len(xs) : i # j => CompareTasks(xs[i], xs[j]) # 0

(***************************************************************************)
(* Claims about the task handlers.                                         *)
(***************************************************************************)
\* The task a completion of the recurring, incomplete task `old` must leave,
\* when the recurrence is counted from the date string `from`.
AfterRecurringCompletion(old, from) ==
    [ old EXCEPT
        !.completed = FALSE,
        !.dueDate = calculateNextDueDate(from, old.recurring),
        !.subtasks = [ i \in 1..Len(@) |-> [ @[i] EXCEPT !.completed = FALSE ] ] ]

\* handleToggleTask has just run on a recurring task that was not completed.
RecurringCompletion ==
    /\ last.op = "toggleTask"
    /\ last.task.recurring # None
    /\ ~last.task.completed

\* C1, as amended: after handleToggleTask on a recurring task that was not
\* completed, the task is still not completed, its dueDate is
\* calculateNextDueDate of its old dueDate (of the UTC date of the moment when
\* it had none) and its frequency, every subtask is not completed, and text,
\* importance, recurring, id and the subtasks' order, ids and texts are as before.
C1_RecurringCompletionAdvances ==
    RecurringCompletion =>
        /\ last.task.id \in TaskIds(tasks)
        /\ FindTask(tasks, last.task.id) =
              AfterRecurringCompletion(last.task,
                  IF last.task.dueDate # NoDate THEN last.task.dueDate ELSE last.today)

\* C1, witness: a monthly task due 2024-01-31 with a completed subtask has
\* just been completed.
C1_Witness ==
    /\ RecurringCompletion
    /\ last.task.recurring = "monthly"
    /\ last.task.dueDate = DateString(2024, 1, 31)
    /\ \E i \in 1..Len(last.task.subtasks) : last.task.subtasks[i].completed

\* C1, as stated: the new dueDate is calculateNextDueDate of the task's own
\* dueDate, for every recurring task that was not completed, with or without
\* a dueDate.
C1_AsStated ==
    RecurringCompletion =>
        /\ last.task.id \in TaskIds(tasks)
        /\ FindTask(tasks, last.task.id) =
              AfterRecurringCompletion(last.task, last.task.dueDate)

\* C2: no task of the in-memory list is both recurring and completed.
C2_NoRecurringTaskCompleted ==
    \A i \in 1..Len(tasks) : ~(tasks[i].recurring # None /\ tasks[i].completed)

\* C2, witness: the edit that made the stored completed task recurring has
\* been applied, and the task is open again.
C2_Witness ==
    /\ last.op = "complete"
    /\ last.cont = "saveEdit"
    /\ last.ok
    /\ \E i \in 1..Len(tasks) :
          /\ tasks[i].id = StoredB.id
          /\ tasks[i].recurring # None
          /\ ~tasks[i].completed

\* C8: no two store writes in flight are for the same id.
C8_OneWriteInFlightPerId ==
    \A i, j \in 1..Len(writes) : i # j => writes[i].id # writes[j].id

\* The in-memory list holds each id once and holds exactly the store's records.
MemoryEqualsStore ==
    /\ \A i, j \in 1..Len(tasks) : i # j => tasks[i].id # tasks[j].id
    /\ { tasks[i] : i \in 1..Len(tasks) } = store

\* C9: when no store operation is in flight (no write, and the initial read
\* has returned) and none was rejected, the store's records are the in-memory
\* list's tasks.
C9_StoreEqualsMemoryWhenQuiescent ==
    (writes = << >> /\ loadState = << >> /\ failures = 0) => MemoryEqualsStore

\* C10: after handleToggleSubtask on the k-th subtask of a task, the list is
\* the list before with that one subtask's completed flag flipped: same tasks
\* at the same indexes, same subtasks at the same positions.
C10_SubtaskToggleFlipsExactlyOne ==
    last.op = "toggleSubtask" =>
        LET i == CHOOSE n \in 1..Len(last.pre) : last.pre[n].id = last.taskId
        IN  tasks = [ last.pre EXCEPT ![i].subtasks[last.k].completed = ~@ ]

(***************************************************************************)
(* Claims about the subtask drag and drop.                                 *)
(***************************************************************************)
\* handleSubtaskDrop has just run, to its end or to an early return.
Dropped == last.op \in { "drop", "dropIgnored" }

\* The subtasks of the drop's target task before and after the handler ran.
DropBefore == FindTask(last.pre, last.taskId).subtasks

DropAfter == FindTask(tasks, last.taskId).subtasks

\* The positions at which the dragged subtask stood in the target task's list
\* when it was dropped on another subtask of that task.
DropSourcePositions ==
    IF last.source.taskId # last.taskId THEN {}
    ELSE { s \in 1..Len(DropBefore) : DropBefore[s] = last.source.subtask /\ s # last.k }

\* Whether `after` is `before` with its s-th element moved next to its k-th:
\* just before it for "top", just after it for "bottom", the others in order.
MovedNextTo(before, after, s, k, position) ==
    LET kk == IF k > s THEN k - 1 ELSE k
        j == IF position = "top" THEN kk ELSE kk + 1
    IN  /\ Len(after) = Len(before)
        /\ after[j] = before[s]
        /\ RemoveAt(after, j) = RemoveAt(before, s)

\* C11: after a drop of subtask A on another subtask B of the same task with
\* position top recorded, A stands immediately before B, with bottom
\* immediately after B, and the other subtasks are in the order they had.
C11_DropPutsSourceNextToTarget ==
    (Dropped /\ last.position \in { "top", "bottom" } /\ DropSourcePositions # {}) =>
        /\ last.taskId \in TaskIds(tasks)
        /\ \E s \in DropSourcePositions :
              MovedNextTo(DropBefore, DropAfter, s, last.k, last.position)

\* C12: a drop on a subtask of another task, and a drop of a subtask on
\* itself, leave the in-memory list as it was and issue no store write.
C12_CrossTaskAndSelfDropAreNoOps ==
    (Dropped /\ (\/ last.source.taskId # last.taskId
                 \/ last.source.subtask = DropBefore[last.k])) =>
        /\ tasks = last.pre
        /\ writes = last.preWrites

\* C12, witness: a subtask of one task has just been dropped on a subtask of
\* another task.
C12_Witness ==
    /\ Dropped
    /\ last.source.taskId # last.taskId
    /\ last.source.taskId \in TaskIds(last.pre)

(***************************************************************************)
(* Claims about the shopping list.                                         *)
(***************************************************************************)
\* quantity, unitPrice and totalPrice are all set when the item is completed
\* and all undefined when it is not; when set, totalPrice is the product and
\* the quantity is positive.
PricedIffCompleted(item) ==
    /\ item.completed =>
        /\ item.quantity # Undefined
        /\ item.unitPrice # Undefined
        /\ item.totalPrice # Undefined
        /\ item.totalPrice[1] = Mul(item.quantity[1], item.unitPrice[1])
        /\ GtZero(item.quantity[1])
    /\ ~item.completed =>
        /\ item.quantity = Undefined
        /\ item.unitPrice = Undefined
        /\ item.totalPrice = Undefined

ItemsOf(its, id) == { its[i] : i \in { j \in 1..Len(its) : its[j].id = id } }

\* C13: every shopping-list item, in memory, in the store and in a write in
\* flight, has quantity, unitPrice and totalPrice all present exactly when it
\* is completed, with totalPrice = quantity * unitPrice and quantity > 0;
\* confirming the price of an item leaves it completed with the three fields
\* set from the form, and reopening an item leaves it not completed with the
\* three fields cleared.
C13_PricedExactlyWhenCompleted ==
    /\ \A i \in 1..Len(items) : PricedIffCompleted(items[i])
    /\ \A u \in itemStore : PricedIffCompleted(u)
    /\ \A i \in 1..Len(itemWrites) :
        itemWrites[i].kind \in { "add", "put" } => PricedIffCompleted(itemWrites[i].item)
    /\ last.op = "confirm" =>
        \A u \in ItemsOf(items, last.id) :
            /\ u.completed
            /\ u.quantity = << ParseFloat(ReplaceComma(last.quantity)) >>
            /\ u.unitPrice = << ParseFloat(ReplaceComma(last.unitPrice)) >>
            /\ u.totalPrice = << Mul(u.quantity[1], u.unitPrice[1]) >>
    /\ last.op = "reopen" =>
        \A u \in ItemsOf(items, last.id) :
            /\ ~u.completed
            /\ u.quantity = Undefined /\ u.unitPrice = Undefined /\ u.totalPrice = Undefined

\* A price has just been confirmed with a fractional quantity, and an item
\* confirmed earlier has been reopened since.
C13_Witness ==
    /\ last.op = "confirm"
    /\ \E u \in ItemsOf(items, last.id) : u.completed /\ u.quantity[1].e > 0
    /\ \E i \in 1..Len(items) : items[i].id = 2 /\ ~items[i].completed

MalformedResponse(resp) ==
    \/ ~resp.ok
    \/ resp.shape # "list"
    \/ \E i \in 1..Len(resp.texts) : resp.texts[i] = JsonNull

BreakdownAnswered == last.op = "breakdownResponse"

\* C15: when the text-generation call is rejected, or its text is not JSON,
\* or `subtasks` is missing, not a list, or a list with an element that is
\* not a string, the tasks in memory and the store are what they were before
\* the response and no write has been issued.
C15_MalformedResponseChangesNothing ==
    (BreakdownAnswered /\ MalformedResponse(last.resp)) =>
        /\ tasks = last.pre
        /\ writes = last.preWrites

\* A breakdown result has just been applied to a task of the list.
BreakdownApplied ==
    /\ BreakdownAnswered
    /\ BreakdownApplies(last.resp)
    /\ last.task.id \in TaskIds(last.pre)

\* C16: when a breakdown result is applied, the task's subtasks are the
\* subtasks it had in memory immediately before, in the same order and with
\* the same flags, followed by one new subtask per returned text, each not
\* completed; no other field of the task differs from what it was
\* immediately before, whatever ran while the call was in flight.
C16_BreakdownAppendsToCurrentSubtasks ==
    BreakdownApplied =>
        LET before == FindTask(last.pre, last.task.id)
            after == FindTask(tasks, last.task.id)
            texts == SubtaskTexts(last.resp).texts
            n == Len(before.subtasks)
        IN  /\ Len(after.subtasks) = n + Len(texts)
            /\ SubSeq(after.subtasks, 1, n) = before.subtasks
            /\ \A j \in 1..Len(texts) :
                  /\ after.subtasks[n + j].text = texts[j]
                  /\ ~after.subtasks[n + j].completed
            /\ [ after EXCEPT !.subtasks = before.subtasks ] = before

(***************************************************************************)
(* Claims about the transactions.                                          *)
(***************************************************************************)
NonZeroAndIncomeIsSalary(tx) ==
    /\ ~IsNaN(tx.amount)
    /\ tx.amount # Zero
    /\ GtZero(tx.amount) => tx.category = "salary"

\* C18: after every creation and every edit, each transaction in memory and
\* in localStorage has an amount other than 0, and each transaction with a
\* positive amount has the category salary, whatever the form's category and
\* the transaction's category before the edit were.
C18_IncomeIsSalaryAndNoZeroAmount ==
    /\ \A i \in 1..Len(transactions) : NonZeroAndIncomeIsSalary(transactions[i])
    /\ \A i \in 1..Len(storedTransactions) :
          NonZeroAndIncomeIsSalary(storedTransactions[i])

\* The stored expense has just been saved as an income while the form's
\* category was still bills.
C18_Witness ==
    /\ last.op = "editTx"
    /\ last.id = TxBill.id
    /\ form.category = "bills"
    /\ \E i \in 1..Len(transactions) :
          /\ transactions[i].id = TxBill.id
          /\ GtZero(transactions[i].amount)
          /\ transactions[i].category = "salary"

(***************************************************************************)
(* Claims about what the forms accept.                                     *)
(***************************************************************************)
\* The text is empty or made of blanks only.
WhitespaceOnly(text) == \A i \in 1..Len(text) : text[i] = " "

\* The text of a number field does not read as a number greater than 0.
NotPositive(text) == ~GtZero(ParseFloat(ReplaceComma(text)))

Terminal(task) == task.completed /\ task.recurring = None

\* The task `id` is completed and not recurring in `pre`, and is the same
\* task in `post`.
TerminalTaskUnchanged(pre, post, id) ==
    (id \in TaskIds(pre) /\ Terminal(FindTask(pre, id))) =>
        (id \in TaskIds(post) /\ FindTask(post, id) = FindTask(pre, id))

\* C19: a click on a subtask, a drop of a subtask and the response to a
\* breakdown leave a task that is completed and not recurring, and its
\* subtasks, as they were.
C19_CompletedTaskIsTerminal ==
    /\ last.op \in { "toggleSubtask", "drop" } =>
          TerminalTaskUnchanged(last.pre, tasks, last.taskId)
    /\ (last.op = "breakdownResponse" /\ Terminal(last.task)) =>
          TerminalTaskUnchanged(last.pre, tasks, last.task.id)


\* No store operation and no call of generateContent is in flight.
Quiescent == writes = << >> /\ aiCalls = << >>

\* The ids of the stored records.
StoredIds(stored) == { r.id : r \in stored }

\* C20: once handleDeleteTask(id) has run, whenever no store operation and
\* no breakdown is in flight any more, neither the tasks in memory nor the
\* store hold a task with that id.  The store has rejected
\* no operation.
C20_DeletedTaskStaysDeleted ==
    (Quiescent /\ failures = 0) =>
        \A id \in deleted : id \notin TaskIds(tasks) /\ id \notin StoredIds(store)


(***************************************************************************)
(* Claims about the initial load, the order of the list and the store.     *)
(***************************************************************************)
\* The ids of the items of a list.
ItemIds(list) == { list[i].id : i \in 1..Len(list) }

\* C21: when the initial getItems() or getTasks() completes, every item and
\* every task that was in memory before (the collection starts empty, so the
\* user created it) is still in memory.
C21_LoadRemovesNothingCreated ==
    /\ last.op = "itemsLoad" => ItemIds(last.pre) \subseteq ItemIds(items)
    /\ last.op = "load" => TaskIds(last.pre) \subseteq TaskIds(tasks)


\* C22: once the initial load has completed, the tasks in memory are in the
\* order of sortTasks, after every creation, edit, completion, breakdown,
\* deletion, subtask click and subtask drop.
C22_TasksStaySorted == loadState = << >> => tasks = sortTasks(tasks)

\* A task has just been created on the loaded screen and the sort has moved
\* it from the head of the list to its place between the two stored tasks.
C22_Witness ==
    /\ loadState = << >>
    /\ last.op = "complete" /\ last.cont = "saveCreate" /\ last.ok
    /\ Len(tasks) = 3
    /\ tasks[1].id = StoredA.id
    /\ tasks[2].id \notin { StoredA.id, StoredB.id }
    /\ tasks[3].id = StoredB.id


\* The task list holds the task `task` under its id.
HoldsTask(ts, task) == task.id \in TaskIds(ts) /\ FindTask(ts, task.id) = task

\* C23: when a handler has issued its store call and the call has not
\* completed yet, the change is already in the collection in memory: the
\* task saved by the form, the task completed or reopened, the deleted task
\* gone; the item added, reopened or priced, the deleted item gone, the
\* cleared list empty.
C23_MemoryChangesBeforeStoreCompletes ==
    /\ last.op = "save" => HoldsTask(tasks, writes[Len(writes)].task)
    /\ last.op = "toggleTask" => HoldsTask(tasks, ToggledTask(last.task, last.today))
    /\ last.op = "delete" => last.id \notin TaskIds(tasks)
    /\ last.op \in { "add", "reopen", "confirm" } =>
          /\ last.id \in ItemIds(items)
          /\ \E i \in 1..Len(items) : items[i] = itemWrites[Len(itemWrites)].item
    /\ last.op = "deleteItem" => last.id \notin ItemIds(items)
    /\ last.op = "clearList" => items = << >>


\* C24: when the store rejects an operation on a task, the handler that
\* issued it handles the rejection: none leaves the handler.
C24_NoRejectionEscapes == last.op = "complete" => ~last.escaped


\* C25: when handleToggleTask or handleDeleteTask has run to its end, with
\* its store call accepted or rejected, no menu is open.
C25_MenuClosedAfterToggleAndDelete ==
    (last.op = "complete" /\ last.cont \in { "toggleTask", "delete" }) => openMenuId = NULL


\* C26: a recurring task without a due date that is completed gets the due
\* date calculateNextDueDate(today, frequency), today being the calendar
\* date of the user's local time at that moment, in every time zone and at
\* every time of day.
C26_NextDueDateCountsFromLocalToday ==
    (/\ last.op = "toggleTask"
     /\ last.task.recurring # None
     /\ ~last.task.completed
     /\ last.task.dueDate = NoDate) =>
        FindTask(tasks, last.task.id).dueDate =
            calculateNextDueDate(LocalDate(last.clock), last.task.recurring)


(***************************************************************************)
(* Claims about edited transactions.                                       *)
(***************************************************************************)
\* The transactions of the list with the id `id`.
TransactionsOf(txs, id) == { txs[i] : i \in { j \in 1..Len(txs) : txs[j].id = id } }

\* The transaction the form describes, under the id `id`: salary for an
\* income, no recurrence when the switch is off.
FormTransaction(id, f) ==
    [ id |-> id,
      description |-> f.description,
      amount |-> IF f.type = "income" THEN numericAmount(f) ELSE Neg(numericAmount(f)),
      date |-> f.date,
      category |-> IF f.type = "income" THEN "salary" ELSE f.category,
      recurring |-> IF f.isRecurring THEN f.recurrenceFrequency ELSE None ]

\* C27: after an edit is saved, the list holds under the edited id exactly
\* the transaction the form describes, without recurrence when the switch is
\* off, and the other stored transaction is as it was.
C27_EditReplacesByFormValues ==
    last.op = "editTx" =>
        /\ TransactionsOf(transactions, last.id) = { FormTransaction(last.id, form) }
        /\ \A tx \in { TxSalary, TxBill } :
              tx.id # last.id => TransactionsOf(transactions, tx.id) = { tx }


(***************************************************************************)
(* Claims about the subtasks of one task.                                  *)
(***************************************************************************)
\* C28: the subtasks of every task in memory have pairwise distinct ids,
\* however close together the clock readings of two breakdowns are.
C28_SubtaskIdsDistinct == \A i \in 1..Len(tasks) : DistinctIds(tasks[i].subtasks)


\* How often x occurs in the sequence.
Occurrences(seq, x) == Cardinality({ i \in 1..Len(seq) : seq[i] = x })

\* The two sequences hold the same elements, each as often.
IsPermutation(a, b) ==
    /\ Len(a) = Len(b)
    /\ \A i \in 1..Len(a) : Occurrences(a, a[i]) = Occurrences(b, a[i])

\* C29: a drop, carried out or ignored, leaves the subtasks of the target
\* task a permutation of what they were, each with its id, text and flag,
\* also when the dragged subtask is no longer among them and when no
\* position is recorded.
C29_DropPermutesSubtasks ==
    last.op \in { "drop", "dropIgnored" } =>
        /\ last.taskId \in TaskIds(tasks)
        /\ IsPermutation(FindTask(last.pre, last.taskId).subtasks,
                         FindTask(tasks, last.taskId).subtasks)

\* A drop has been carried out for a dragged subtask that the task no longer
\* holds.
C29_Witness ==
    /\ last.op = "drop"
    /\ \A k \in 1..Len(FindTask(last.pre, last.taskId).subtasks) :
          FindTask(last.pre, last.taskId).subtasks[k].id # last.source.subtask.id

(***************************************************************************)
(* Claims about the category of an expense.                                *)
(***************************************************************************)
\* amount < 0
IsExpense(tx) == ~tx.amount.nan /\ tx.amount.m < 0

\* The transaction is not an expense of the category salary.
ExpenseIsNotSalary(tx) == IsExpense(tx) => tx.category # "salary"

\* C30: after every creation and every edit, no transaction in memory or in
\* localStorage with a negative amount has the category salary, an income
\* that was edited and saved as an expense included.
C30_SalaryOnlyOnIncome ==
    /\ \A i \in 1..Len(transactions) : ExpenseIsNotSalary(transactions[i])
    /\ \A i \in 1..Len(storedTransactions) :
          ExpenseIsNotSalary(storedTransactions[i])


=============================================================================
